---- MODULE Spec2Model ----
(***************************************************************************)
(* Streaming AI response pipeline of the editor's AI assistant:            *)
(*   - directChatOpenAi (context/ai-api): one streaming request driven by  *)
(*     fetchEventSource, with its onopen/onmessage/onclose/onerror         *)
(*     handlers and the retry counters;                                    *)
(*   - AiQuery.chatReAct / chatStreamXml (context/ai-query.ts);            *)
(*   - ReActCommandLexer (_backend/commandLexer.ts);                       *)
(*   - the incremental tag Parser (_backend/parser) chatStreamXml drives;  *)
(*   - ChatHistory (the assistant's bounded message list);                 *)
(*   - truncateHistoryForTokenLimit (utils/historyTruncation.ts).          *)
(* Text is a sequence of one-character strings.                            *)
(***************************************************************************)
EXTENDS Integers, Sequences, FiniteSets, TLC

VARIABLES
    \* ---- directChatOpenAi ----
    phase,                \* "connecting" | "streaming" | "backoff" | "resolved" | "rejected"
    fullText,             \* let fullText
    completionTokenCount, \* let completionTokenCount
    tries,                \* let tries
    currentAttempt,       \* let currentAttempt
    aborted,              \* controller.signal.aborted
    retryDelay,           \* interval handed to the retry timer by onerror (0 when no timer)
    rejection,            \* value the promise was rejected with ("none" until then)
    \* ---- what the collaborators observed (history) ----
    attempts,             \* number of fetch() calls made for this request
    outcomes,             \* per finished attempt: "Ok" or the error onerror received
    response,             \* the last response the endpoint gave to fetch()
    wire,                 \* every event received on the wire, in arrival order
    streamCalls,          \* arguments of each onStream(fullText, delta) call
    onEndCalls,           \* number of onEnd() calls
    callerAborted,        \* the caller invoked its abort handle
    attemptStart,         \* number of events on the wire when the current attempt began
    reactFullText,        \* chatReAct's own fullText, fed by its onStream
    \* ---- ReActCommandLexer ----
    buffer,               \* this._buffer
    commands,             \* this._commands: records [type, args]
    previousCommands,     \* append's previousCommands (the copy taken by the last append)
    changedCommands,      \* what the last append returned: references into commands,
                          \* kept as their indices, in the order they were pushed
    appended,             \* every text handed to append, in call order (history)
    \* ---- Parser (_backend/parser) as chatStreamXml drives it ----
    parser,               \* the Parser instance: [state, pending, name, attributes,
                          \*   accumulatedText, fullText]
    streamBuffer,         \* chatStreamXml's streamBuffer: <<>> (null) or <<[tagName, text]>>
    sinceUpdate,          \* Date.now() - lastUpdateTime, saturated at UPDATE_INTERVAL
    lastStream,           \* the last (tagName, text) the consumer's onStream received
    tagEvents,            \* the consumer's onTagOpen / onTagEnd calls, in order (history)
    fed,                  \* the fragments received so far, in order (history)
    calls,                \* what the last step of chatStreamXml's closure did, in order:
                          \*   the consumer calls it made and its writes to streamBuffer
    xmlResolved,          \* chatStreamXml's promise has resolved
    \* ---- ChatHistory ----
    messages,             \* this._messages: records [snowflakeId, type, content, metadata]
    nextSnowflakeId,      \* the id AiUtils.generateSnowflakeId() hands out next
    listenerSaw,          \* messages.length a MessagesChanged listener read when last notified
    systemAdds,           \* number of System messages handed to add so far
    lastTruncationAt,     \* id given by the add call that last truncated, 0 if none did
    lastPatch,            \* argument of the last updateLast call
    \* ---- truncateHistoryForTokenLimit ----
    history,              \* argument history: records [role, content]
    modelName,            \* argument modelName
    systemPromptLength,   \* argument systemPromptLength
    codeLength,           \* argument codeLength
    truncateResult,       \* <<>> before the call, <<the returned list>> after it
    truncateAgain,        \* <<what the function returns for its own result>>, or <<>>
    \* ---- AI node template handlers (templates/*.onMessage) ----
    activities,           \* chatHistory._activities: records [id, name]
    handler,              \* the onMessage call in hand: [template, at, exit]
    runs,                 \* onMessage calls made so far
    \* ---- NpmPackageImporter ----
    importInProgress,     \* this._importInProgress
    importCalls,          \* per importFromCommand call: [at, result, toScan, found]
    progress,             \* per call: the stages of the onProgress calls it made, in order
    installs,             \* number of executeNpmInstall calls started
    \* ---- retryWithBackoff / retryDatabaseFetch ----
    retrying,             \* the call in hand: [fn, maxRetries, initialDelay, attempt, at]
    invocations,          \* number of times fn (or schema._fetch) was invoked
    waits,                \* the delays handed to setTimeout, in order
    failures,             \* the errors the failed attempts threw, in order
    settled,              \* <<>> or <<[how, value]>>: how the call's promise settled
    \* ---- NodeLibraryImporter ----
    currentNodeLibrary,   \* <<>> (null) or <<[nodetypes, moduleNodes]>>
    clients,              \* ClientCollection._clients: per client id <<>> or <<its node names>>
    cache,                \* ClientCollection._cache: per runtime type <<>> or <<node names>>
    exported,             \* window.NodeLibraryData: <<>> ({}) or <<the exported library>>
    registers,            \* registerNpmComponents calls made so far
    lastComponents,       \* argument of the last registerNpmComponents call
    \* ---- OpenRouter node ----
    runtime,              \* "browser", or "cloud" when _noodl_cloud_runtime_version is defined
    internal,             \* this._internal of the node
    requests              \* per sendMessage call: where its promise chain stands, the
                          \* message it sent, the text streamed for it, whether its
                          \* loop reached [DONE], and the terminal signals it emitted

transportVars == <<phase, fullText, completionTokenCount, tries, currentAttempt,
                   aborted, retryDelay, rejection, attempts, outcomes, response,
                   wire, streamCalls, onEndCalls, callerAborted, attemptStart>>

lexerVars == <<buffer, commands, previousCommands, changedCommands, appended>>

xmlVars == <<parser, streamBuffer, sinceUpdate, lastStream, tagEvents, fed, calls,
             xmlResolved>>

chatVars == <<messages, nextSnowflakeId, listenerSaw, systemAdds, lastTruncationAt,
              lastPatch>>

truncationVars == <<history, modelName, systemPromptLength, codeLength, truncateResult,
                    truncateAgain>>

templateVars == <<activities, handler, runs>>

\* The streaming pipeline, and the editor components around it.
pipelineVars == <<transportVars, reactFullText, lexerVars, xmlVars, chatVars, truncationVars>>

importerVars == <<importInProgress, importCalls, progress, installs>>

retryVars == <<retrying, invocations, waits, failures, settled>>

libraryVars == <<currentNodeLibrary, clients, cache, exported, registers, lastComponents>>

openRouterVars == <<runtime, internal, requests>>

editorVars == <<templateVars, importerVars, retryVars, libraryVars, openRouterVars>>

vars == <<pipelineVars, editorVars>>

\* What a step of one component leaves alone.
NotTransport == UNCHANGED <<lexerVars, xmlVars, chatVars, truncationVars, editorVars>>
NotLexer == UNCHANGED <<transportVars, xmlVars, chatVars, truncationVars, editorVars>>
NotXml == UNCHANGED <<transportVars, reactFullText, lexerVars, chatVars, truncationVars,
                      editorVars>>
NotChat == UNCHANGED <<transportVars, reactFullText, lexerVars, xmlVars, truncationVars,
                       editorVars>>
NotTruncation == UNCHANGED <<transportVars, reactFullText, lexerVars, xmlVars, chatVars,
                             editorVars>>
NotTemplates == UNCHANGED <<transportVars, reactFullText, lexerVars, xmlVars, truncationVars,
                            importerVars, retryVars, libraryVars, openRouterVars>>
NotImporter == UNCHANGED <<pipelineVars, templateVars, retryVars, libraryVars, openRouterVars>>
NotRetry == UNCHANGED <<pipelineVars, templateVars, importerVars, libraryVars, openRouterVars>>
NotLibrary == UNCHANGED <<pipelineVars, templateVars, importerVars, retryVars, openRouterVars>>
NotOpenRouter ==
    UNCHANGED <<pipelineVars, templateVars, importerVars, retryVars, libraryVars, runtime>>

----------------------------------------------------------------------------
\* Arithmetic and enumeration helpers.

Min(a, b) == IF a <= b THEN a ELSE b

RECURSIVE Pow(_, _)
Pow(b, e) == IF e = 0 THEN 1 ELSE b * Pow(b, e - 1)

SeqsUpTo(S, n) == UNION {[1..k -> S] : k \in 1..n}

----------------------------------------------------------------------------
\* RETRY_CONFIG

maxRetries == 3
initialDelayMs == 1000
maxDelayMs == 10000
backoffMultiplier == 2
jitterMs == 500

\* Bounds of the model.
MaxWire == 3          \* events received on the wire during one request
MaxChunkLen == 2      \* events carried by one network chunk

\* Math.random() * jitterMs, sampled at its extremes.
JitterSamples == {0, jitterMs - 1}

\* The delay without the exponential term.
calculateRetryDelayFlat(attemptNumber, jitter) == Min(initialDelayMs, maxDelayMs) + jitter

calculateRetryDelay(attemptNumber, jitter) ==
    Min(initialDelayMs * Pow(backoffMultiplier, attemptNumber), maxDelayMs) + jitter

----------------------------------------------------------------------------
\* What the endpoint can answer to fetch(): a response, or a network failure.

EventStreamContentType == "text/event-stream"

Responses ==
    [status : {200, 401, 429, 500},
     contentType : {EventStreamContentType, "application/json", "null"}]

NetworkError == "TypeError"     \* what fetch()/reader.read() reject with

\* No response at all: before the first one, and when fetch() rejected.
NoResponse == [status |-> 0, contentType |-> "null"]

ResponseOk(r) == r.status >= 200 /\ r.status <= 299

\* onopen(response): "ok" when it returns, else the value it throws.
\* headers.get('content-type') is null for a response without the header, and
\* null.includes throws a TypeError.
onopen(r) ==
    IF ResponseOk(r) /\ r.contentType = "null" THEN "TypeError"
    ELSE IF ResponseOk(r) /\ r.contentType = EventStreamContentType THEN "ok"
    ELSE IF r.status >= 400 /\ r.status < 500 /\ r.status # 429 THEN "FatalError"
    ELSE "RetriableError"

HeavyTraffic == "Apologies, the AI service is currently facing heavy traffic"

\* onerror with the exhaustion test written tries < 0.
onerrorOffByOne(err, t, c) ==
    IF err = "FatalError" THEN
        [throws |-> err, tries |-> t, currentAttempt |-> c, retry |-> FALSE]
    ELSE IF t < 0
    THEN [throws |-> IF err = "RetriableError" THEN HeavyTraffic ELSE err,
          tries |-> t, currentAttempt |-> c, retry |-> FALSE]
    ELSE [throws |-> "none", tries |-> t - 1, currentAttempt |-> c + 1, retry |-> TRUE]

\* onerror treating FatalError like any other error.
onerrorFatalRetries(err, t, c) ==
    IF t <= 0
    THEN [throws |-> IF err = "RetriableError" THEN HeavyTraffic ELSE err,
          tries |-> t, currentAttempt |-> c, retry |-> FALSE]
    ELSE [throws |-> "none", tries |-> t - 1, currentAttempt |-> c + 1, retry |-> TRUE]

\* onerror without currentAttempt++.
onerrorForgetsAttempt(err, t, c) ==
    IF err = "FatalError" THEN
        [throws |-> err, tries |-> t, currentAttempt |-> c, retry |-> FALSE]
    ELSE IF t <= 0
    THEN [throws |-> IF err = "RetriableError" THEN HeavyTraffic ELSE err,
          tries |-> t, currentAttempt |-> c, retry |-> FALSE]
    ELSE [throws |-> "none", tries |-> t - 1, currentAttempt |-> c, retry |-> TRUE]

\* onerror(err) with the counters it closes over. Result: what it throws
\* ("none" when it returns), the counters afterwards, and whether it returned
\* a delay (the delay itself is calculateRetryDelay(currentAttempt, jitter)).
onerror(err, t, c) ==
    IF err = "FatalError" THEN
        [throws |-> err, tries |-> t, currentAttempt |-> c, retry |-> FALSE]
    ELSE IF err = "RetriableError" THEN
        IF t <= 0
        THEN [throws |-> HeavyTraffic, tries |-> t, currentAttempt |-> c, retry |-> FALSE]
        ELSE [throws |-> "none", tries |-> t - 1, currentAttempt |-> c + 1, retry |-> TRUE]
    ELSE
        IF t <= 0
        THEN [throws |-> err, tries |-> t, currentAttempt |-> c, retry |-> FALSE]
        ELSE [throws |-> "none", tries |-> t - 1, currentAttempt |-> c + 1, retry |-> TRUE]

----------------------------------------------------------------------------
\* Events of the stream (ev.data) and onmessage.

Deltas == {<<"a">>, <<"b", "c">>}

Events ==
    [kind : {"delta"}, content : Deltas]        \* {"choices":[{"delta":{"content":..}}]}
    \cup {[kind |-> "empty", content |-> <<>>],     \* content is ""
          [kind |-> "nocontent", content |-> <<>>], \* JSON without choices[0].delta.content
          [kind |-> "badjson", content |-> <<>>],   \* JSON.parse throws
          [kind |-> "done", content |-> <<>>]}      \* the literal [DONE]

\* The delta onmessage extracts: <<>> stands for every falsy or missing
\* delta and for the parse error caught by the handler.
DeltaOf(ev) == IF ev.kind = "delta" THEN ev.content ELSE <<>>

\* chatReAct's onStream: (_, text) => { if (text) { fullText += text; ... } }
reactOnStream(ft, text) == IF text # <<>> THEN ft \o text ELSE ft

\* onmessage calling onStream before it appends the delta to fullText.
onmessageStale(s, ev) ==
    IF ev.kind = "done" THEN [s EXCEPT !.aborted = TRUE]
    ELSE IF DeltaOf(ev) # <<>> THEN
        [s EXCEPT !.completionTokenCount = @ + 1,
                  !.fullText = @ \o DeltaOf(ev),
                  !.streamCalls = Append(@, [fullText |-> s.fullText, delta |-> DeltaOf(ev)]),
                  !.reactFullText = reactOnStream(@, DeltaOf(ev))]
    ELSE s

\* onmessage without the try/catch: an event that cannot be parsed ends the
\* stream.
onmessageNoCatch(s, ev) ==
    IF ev.kind \in {"done", "badjson", "nocontent"} THEN [s EXCEPT !.aborted = TRUE]
    ELSE IF DeltaOf(ev) # <<>> THEN
        LET ft == s.fullText \o DeltaOf(ev) IN
        [s EXCEPT !.completionTokenCount = @ + 1,
                  !.fullText = ft,
                  !.streamCalls = Append(@, [fullText |-> ft, delta |-> DeltaOf(ev)]),
                  !.reactFullText = reactOnStream(@, DeltaOf(ev))]
    ELSE s

\* onmessage(ev) on the state s of the closure:
\* [fullText, completionTokenCount, aborted, streamCalls, reactFullText].
onmessage(s, ev) ==
    IF ev.kind = "done" THEN [s EXCEPT !.aborted = TRUE]
    ELSE IF DeltaOf(ev) # <<>> THEN
        LET ft == s.fullText \o DeltaOf(ev) IN
        [s EXCEPT !.completionTokenCount = @ + 1,
                  !.fullText = ft,
                  !.streamCalls = Append(@, [fullText |-> ft, delta |-> DeltaOf(ev)]),
                  !.reactFullText = reactOnStream(@, DeltaOf(ev))]
    ELSE s

\* fetchEventSource hands a received chunk to its line/message decoder, which
\* calls onmessage for every event of the chunk before the next read(); an
\* abort raised inside onmessage makes that next read() fail, it does not
\* interrupt the events already decoded from the chunk in hand.
RECURSIVE DispatchChunk(_, _)
DispatchChunk(s, evs) ==
    IF evs = <<>> THEN s ELSE DispatchChunk(onmessage(s, Head(evs)), Tail(evs))

----------------------------------------------------------------------------
\* The request as a state machine.

TransportInit ==
    /\ phase = "connecting"        \* fetchEventSource called create()
    /\ fullText = <<>>
    /\ completionTokenCount = 0
    /\ tries = maxRetries
    /\ currentAttempt = 0
    /\ aborted = FALSE
    /\ retryDelay = 0
    /\ rejection = "none"
    /\ attempts = 1
    /\ outcomes = <<>>
    /\ response = NoResponse
    /\ wire = <<>>
    /\ streamCalls = <<>>
    /\ onEndCalls = 0
    /\ callerAborted = FALSE
    /\ attemptStart = 0
    /\ reactFullText = <<>>

\* The catch block of create(): err reached it and the request was not aborted.
HandleError(err) ==
    LET r == onerror(err, tries, currentAttempt) IN
    /\ outcomes' = Append(outcomes, err)
    /\ tries' = r.tries
    /\ currentAttempt' = r.currentAttempt
    /\ IF r.retry
       THEN /\ \E jitter \in JitterSamples :
                  retryDelay' = calculateRetryDelay(r.currentAttempt, jitter)
            /\ phase' = "backoff"
            /\ rejection' = rejection
       ELSE /\ retryDelay' = 0
            /\ phase' = "rejected"
            /\ rejection' = r.throws

\* fetch() settles with a response and onopen runs on it.
Connect ==
    /\ NotTransport
    /\ UNCHANGED attemptStart
    /\ phase = "connecting"
    /\ \E r \in Responses :
          /\ response' = r
          /\ IF onopen(r) = "ok"
             THEN /\ phase' = "streaming"
                  /\ outcomes' = Append(outcomes, "Ok")
                  /\ UNCHANGED <<tries, currentAttempt, retryDelay, rejection>>
             ELSE HandleError(onopen(r))
    /\ UNCHANGED <<fullText, completionTokenCount, aborted, attempts, wire,
                   streamCalls, onEndCalls, callerAborted, reactFullText>>

\* fetch() rejects: DNS failure, connection reset, timeout.
ConnectFails ==
    /\ NotTransport
    /\ UNCHANGED attemptStart
    /\ phase = "connecting"
    /\ response' = NoResponse
    /\ HandleError(NetworkError)
    /\ UNCHANGED <<fullText, completionTokenCount, aborted, attempts, wire,
                   streamCalls, onEndCalls, callerAborted, reactFullText>>

\* One network chunk arrives and every event in it is dispatched to onmessage.
\* If [DONE] was among them the abort listener has disposed and resolved.
Chunk ==
    /\ NotTransport
    /\ UNCHANGED attemptStart
    /\ phase = "streaming"
    /\ \E evs \in SeqsUpTo(Events, MaxChunkLen) :
          /\ Len(wire) + Len(evs) <= MaxWire
          /\ wire' = wire \o evs
          /\ \E s \in {DispatchChunk([fullText |-> fullText,
                                       completionTokenCount |-> completionTokenCount,
                                       aborted |-> aborted,
                                       streamCalls |-> streamCalls,
                                       reactFullText |-> reactFullText], evs)} :
                /\ fullText' = s.fullText
                /\ completionTokenCount' = s.completionTokenCount
                /\ aborted' = s.aborted
                /\ streamCalls' = s.streamCalls
                /\ reactFullText' = s.reactFullText
                /\ phase' = IF s.aborted THEN "resolved" ELSE "streaming"
    /\ UNCHANGED <<tries, currentAttempt, retryDelay, rejection, attempts,
                   outcomes, response, onEndCalls, callerAborted>>

\* The server ends the response body: onclose(), dispose(), resolve().
StreamCloses ==
    /\ NotTransport
    /\ UNCHANGED attemptStart
    /\ phase = "streaming"
    /\ onEndCalls' = onEndCalls + 1
    /\ phase' = "resolved"
    /\ UNCHANGED <<fullText, completionTokenCount, tries, currentAttempt, aborted,
                   retryDelay, rejection, attempts, outcomes, response, wire,
                   streamCalls, callerAborted, reactFullText>>

\* The connection breaks while the body is being read: read() rejects.
StreamFails ==
    /\ NotTransport
    /\ UNCHANGED attemptStart
    /\ phase = "streaming"
    /\ HandleError(NetworkError)
    /\ UNCHANGED <<fullText, completionTokenCount, aborted, attempts, response,
                   wire, streamCalls, onEndCalls, callerAborted, reactFullText>>

\* The retry timer fires: create() issues the request again.
RetryFires ==
    /\ NotTransport
    /\ phase = "backoff"
    /\ attempts' = attempts + 1
    /\ retryDelay' = 0
    /\ attemptStart' = Len(wire)
    /\ phase' = "connecting"
    /\ UNCHANGED <<fullText, completionTokenCount, tries, currentAttempt, aborted,
                   rejection, outcomes, response, wire, streamCalls, onEndCalls,
                   callerAborted, reactFullText>>

\* The abort handle not wired to the request: aborting changes nothing.
CallerAbortsUnwired ==
    /\ NotTransport
    /\ UNCHANGED attemptStart
    /\ phase \in {"connecting", "streaming", "backoff"}
    /\ ~callerAborted
    /\ aborted' = TRUE
    /\ callerAborted' = TRUE
    /\ UNCHANGED <<phase, retryDelay, fullText, completionTokenCount, tries,
                   currentAttempt, rejection, attempts, outcomes, response, wire,
                   streamCalls, onEndCalls, reactFullText>>

\* The caller aborts while the request is suspended (connecting, between
\* chunks, or in a backoff delay): the abort listener clears the retry timer,
\* aborts the current fetch and resolves.
CallerAborts ==
    /\ NotTransport
    /\ UNCHANGED attemptStart
    /\ phase \in {"connecting", "streaming", "backoff"}
    /\ aborted' = TRUE
    /\ callerAborted' = TRUE
    /\ retryDelay' = 0
    /\ phase' = "resolved"
    /\ UNCHANGED <<fullText, completionTokenCount, tries, currentAttempt, rejection,
                   attempts, outcomes, response, wire, streamCalls, onEndCalls,
                   reactFullText>>

TransportNext ==
    \/ Connect
    \/ ConnectFails
    \/ Chunk
    \/ StreamCloses
    \/ StreamFails
    \/ RetryFires
    \/ CallerAborts

----------------------------------------------------------------------------
\* ReActCommandLexer (_backend/commandLexer.ts). Positions are 0-based as in
\* the source; input[p + 1] is the character at position p.

MaxAppends == 4       \* append calls made on one lexer

Uppercase == {"A", "B"}                \* /[A-Z]/
Whitespace == {" ", "\n"}              \* what String.prototype.trim removes

\* The texts handed to append: single characters and a few longer pieces.
LexChunks ==
    {<<"A">>, <<"B">>, <<"b">>, <<"[">>, <<"]">>, <<"\"">>, <<"\\">>, <<" ">>, <<"\n">>,
     <<"A", "[", "]">>, <<"A", "[", "\"">>, <<"b", "\"", "]">>}

ReActCommand(type, args) == [type |-> type, args |-> args]

peek(input, position) ==
    IF position < Len(input) THEN input[position + 1] ELSE ""

RECURSIVE trimStart(_)
trimStart(value) ==
    IF value # <<>> /\ Head(value) \in Whitespace THEN trimStart(Tail(value)) ELSE value

RECURSIVE trimEnd(_)
trimEnd(value) ==
    IF value # <<>> /\ value[Len(value)] \in Whitespace
    THEN trimEnd(SubSeq(value, 1, Len(value) - 1))
    ELSE value

trim(value) == trimEnd(trimStart(value))

\* The while loop of readUntil.
RECURSIVE readUntilLoop(_, _, _, _, _)
readUntilLoop(input, stopChars, position, value, escaped) ==
    IF position >= Len(input) THEN [value |-> value, position |-> position]
    ELSE LET ch == peek(input, position) IN
         IF ch = "\n" THEN
             readUntilLoop(input, stopChars, position + 1, Append(value, ch), escaped)
         ELSE IF ch \in stopChars /\ ~escaped THEN
             [value |-> value, position |-> position]
         ELSE IF ch = "\\" /\ ~escaped THEN
             readUntilLoop(input, stopChars, position + 1, value, TRUE)
         ELSE
             readUntilLoop(input, stopChars, position + 1, Append(value, ch), FALSE)

readUntil(input, position, stopChars) ==
    LET r == readUntilLoop(input, stopChars, position, <<>>, FALSE)
    IN  [value |-> trim(r.value), position |-> r.position]

\* while (position < input.length && !uppercaseRegex.test(peek)) next
RECURSIVE skipToUppercase(_, _)
skipToUppercase(input, position) ==
    IF position < Len(input) /\ peek(input, position) \notin Uppercase
    THEN skipToUppercase(input, position + 1)
    ELSE position

\* while (peek !== ']') { ... }: the argument list.
RECURSIVE readArgs(_, _, _)
readArgs(input, position, args) ==
    IF peek(input, position) = "]" THEN [args |-> args, position |-> position]
    ELSE IF position >= Len(input) THEN [args |-> args, position |-> position]
    ELSE IF peek(input, position) = "\"" THEN
        LET r == readUntil(input, position + 1, {"\""})
        IN  readArgs(input, r.position + 1, Append(args, r.value))
    ELSE readArgs(input, position + 1, args)

\* The else branch leaving the commands alone.
unterminatedIgnored(cmds, commandType, args) == cmds

\* The else branch writing over the first command.
unterminatedFirst(cmds, commandType, args) ==
    IF Len(cmds) > 0
    THEN [cmds EXCEPT ![1] = ReActCommand(commandType, args)]
    ELSE cmds

\* The input ran out before "]": lastCommand.type = commandType and
\* lastCommand.args = args if there is a last command.
unterminated(cmds, commandType, args) ==
    IF Len(cmds) > 0
    THEN [cmds EXCEPT ![Len(cmds)] = ReActCommand(commandType, args)]
    ELSE cmds

\* The outer while loop of tokenize, from position with the commands so far.
RECURSIVE tokenizeLoop(_, _, _)
tokenizeLoop(input, position, cmds) ==
    IF position >= Len(input) THEN cmds
    ELSE
        LET start == skipToUppercase(input, position)
            r == readUntil(input, start, {"["})
            commandType == trim(r.value)
            afterBracket == IF peek(input, r.position) = "[" THEN r.position + 1
                            ELSE r.position
            a == readArgs(input, afterBracket, <<>>)
        IN  IF peek(input, a.position) = "]" THEN
                tokenizeLoop(input, a.position + 1,
                    IF commandType # <<>> /\ commandType[1] \in Uppercase
                    THEN Append(cmds, ReActCommand(commandType, a.args))
                    ELSE cmds)
            ELSE
                tokenizeLoop(input, a.position, unterminated(cmds, commandType, a.args))

\* tokenize continuing from the commands of the previous pass.
tokenizeNoReset(cmds, input) == tokenizeLoop(input, 0, cmds)

\* tokenize(input) on a lexer holding cmds: _position and _commands are reset
\* first; the result is the new _commands.
tokenize(cmds, input) == tokenizeLoop(input, 0, <<>>)

\* hasCommandChanged comparing the type and the number of arguments only.
hasCommandChangedShallow(oldCmd, newCmd) ==
    \/ oldCmd.type # newCmd.type
    \/ Len(oldCmd.args) # Len(newCmd.args)

hasCommandChanged(oldCmd, newCmd) ==
    \/ oldCmd.type # newCmd.type
    \/ Len(oldCmd.args) # Len(newCmd.args)
    \/ \E i \in 1..Len(oldCmd.args) : oldCmd.args[i] # newCmd.args[i]

\* The indices i < checkLength, ascending, whose command changed.
RECURSIVE changedBelow(_, _, _)
changedBelow(prev, cur, checkLength) ==
    IF checkLength = 0 THEN <<>>
    ELSE changedBelow(prev, cur, checkLength - 1)
         \o (IF hasCommandChanged(prev[checkLength], cur[checkLength])
             THEN <<checkLength>> ELSE <<>>)

\* append reporting every existing command, changed or not.
appendReportsAll(buf, cmds, ch) ==
    LET newBuffer == buf \o ch
        cur == tokenize(cmds, newBuffer)
    IN  [buffer |-> newBuffer,
         commands |-> cur,
         previousCommands |-> cmds,
         changedCommands |->
            [i \in 1..(Len(cur) - Min(Len(cmds), Len(cur))) |-> Len(cmds) + i]
            \o [i \in 1..Min(Len(cmds), Len(cur)) |-> i]]

\* append(ch) on a lexer holding buf and cmds.
append(buf, cmds, ch) ==
    LET newBuffer == buf \o ch
        previousCount == Len(cmds)
        cur == tokenize(cmds, newBuffer)
        new == IF Len(cur) > previousCount
               THEN [i \in 1..(Len(cur) - previousCount) |-> previousCount + i]
               ELSE <<>>
        checkLength == Min(previousCount, Len(cur))
    IN  [buffer |-> newBuffer,
         commands |-> cur,
         previousCommands |-> cmds,
         changedCommands |-> new \o changedBelow(cmds, cur, checkLength)]

LexerInit ==
    /\ buffer = <<>>
    /\ commands = <<>>
    /\ previousCommands = <<>>
    /\ changedCommands = <<>>
    /\ appended = <<>>

\* chatReAct's onStream(_, text): if (text) { fullText += text; parser.append(text) }
ReactOnStream ==
    /\ Len(appended) < MaxAppends
    /\ \E text \in LexChunks \cup {<<>>} :
          /\ reactFullText' = reactOnStream(reactFullText, text)
          /\ IF text # <<>>
             THEN \E r \in {append(buffer, commands, text)} :
                  /\ buffer' = r.buffer
                  /\ commands' = r.commands
                  /\ previousCommands' = r.previousCommands
                  /\ changedCommands' = r.changedCommands
                  /\ appended' = Append(appended, text)
             ELSE UNCHANGED lexerVars
    /\ NotLexer

LexerNext == ReactOnStream

----------------------------------------------------------------------------
\* Parser (_backend/parser): the incremental tag parser chatStreamXml creates.
\* States Outside, TagOpen and InContent; one nesting level. The text not
\* yet decided (a partial tag, a partial close sequence) is held in pending
\* across append calls.

MaxFragments == 4     \* fragments streamed into one parser

\* The fragments a stream delivers: single characters, and pieces that cut a
\* tag name, an attribute or a close sequence in the middle.
Fragments ==
    {<<"<">>, <<"t">>, <<">">>, <<"/">>, <<" ">>, <<"x">>,
     <<"<", "t", " ", "a">>, <<"=", "\"", "v", "\"", ">", "x">>, <<"<", "/">>,
     <<"t", ">">>, <<"<", "t", ">", "x", "<", "/", "t", ">">>}

NewParser ==
    [state |-> "Outside", pending |-> <<>>, name |-> <<>>, attributes |-> <<>>,
     accumulatedText |-> <<>>, fullText |-> <<>>]

\* Index of the first occurrence of the text pat in s at or after i, 0 if none.
RECURSIVE IndexOf(_, _, _)
IndexOf(s, pat, i) ==
    IF i + Len(pat) - 1 > Len(s) THEN 0
    ELSE IF SubSeq(s, i, i + Len(pat) - 1) = pat THEN i
    ELSE IndexOf(s, pat, i + 1)

\* Length of the longest suffix of s that is a proper prefix of pat.
RECURSIVE HeldSuffix(_, _, _)
HeldSuffix(s, pat, k) ==
    IF k = 0 THEN 0
    ELSE IF k <= Len(s) /\ SubSeq(s, Len(s) - k + 1, Len(s)) = SubSeq(pat, 1, k) THEN k
    ELSE HeldSuffix(s, pat, k - 1)

\* The header of an open tag split at blanks.
RECURSIVE SplitBlank(_, _, _)
SplitBlank(s, cur, out) ==
    IF s = <<>> THEN (IF cur = <<>> THEN out ELSE Append(out, cur))
    ELSE IF Head(s) = " "
         THEN SplitBlank(Tail(s), <<>>, IF cur = <<>> THEN out ELSE Append(out, cur))
         ELSE SplitBlank(Tail(s), Append(cur, Head(s)), out)

IsAttribute(tok) ==
    LET e == IndexOf(tok, <<"=", "\"">>, 1)
    IN  e > 1 /\ Len(tok) >= e + 2 /\ tok[Len(tok)] = "\""

AttributeOf(tok) ==
    LET e == IndexOf(tok, <<"=", "\"">>, 1)
    IN  [name |-> SubSeq(tok, 1, e - 1), value |-> SubSeq(tok, e + 2, Len(tok) - 1)]

HeaderName(header) ==
    LET toks == SplitBlank(header, <<>>, <<>>)
    IN  IF toks = <<>> \/ Head(header) = " " THEN <<>> ELSE toks[1]

HeaderAttributes(header) ==
    LET toks == SplitBlank(header, <<>>, <<>>)
        rest == IF HeaderName(header) = <<>> THEN toks ELSE Tail(toks)
        attrs == SelectSeq(rest, IsAttribute)
    IN  [i \in 1..Len(attrs) |-> AttributeOf(attrs[i])]

CloseSequence(name) == <<"<", "/">> \o name \o <<">">>

\* Run the state machine over pending as far as it is decided; evs are the
\* callbacks made so far: [kind: "open" | "content" | "end", name, attributes, text].
RECURSIVE parse(_, _)
parse(p, evs) ==
    IF p.state = "Outside" THEN
        \* scanning for "<"; text outside tags is discarded
        LET i == IndexOf(p.pending, <<"<">>, 1) IN
        IF i = 0 THEN [parser |-> [p EXCEPT !.pending = <<>>], events |-> evs]
        ELSE parse([p EXCEPT !.state = "TagOpen",
                             !.pending = SubSeq(@, i + 1, Len(@))], evs)
    ELSE IF p.state = "TagOpen" THEN
        \* accumulating name and attributes until ">"
        LET i == IndexOf(p.pending, <<">">>, 1) IN
        IF i = 0 THEN [parser |-> p, events |-> evs]
        ELSE LET header == SubSeq(p.pending, 1, i - 1) IN
             parse([p EXCEPT !.state = "InContent",
                             !.name = HeaderName(header),
                             !.attributes = HeaderAttributes(header),
                             !.accumulatedText = <<>>,
                             !.pending = SubSeq(@, i + 1, Len(@))],
                   Append(evs, [kind |-> "open", name |-> HeaderName(header),
                                attributes |-> HeaderAttributes(header),
                                text |-> <<>>]))
    ELSE
        \* InContent: content up to the close sequence; a suffix that may be
        \* the beginning of the close sequence is held back
        LET close == CloseSequence(p.name)
            i == IndexOf(p.pending, close, 1)
            held == IF i = 0 THEN HeldSuffix(p.pending, close, Len(close) - 1) ELSE 0
            content == IF i = 0 THEN SubSeq(p.pending, 1, Len(p.pending) - held)
                       ELSE SubSeq(p.pending, 1, i - 1)
            acc == p.accumulatedText \o content
            withContent ==
                IF content = <<>> THEN evs
                ELSE Append(evs, [kind |-> "content", name |-> p.name,
                                  attributes |-> <<>>, text |-> acc])
        IN  IF i = 0 THEN
                [parser |-> [p EXCEPT !.accumulatedText = acc,
                                      !.pending = SubSeq(@, Len(@) - held + 1, Len(@))],
                 events |-> withContent]
            ELSE
                parse([p EXCEPT !.state = "Outside", !.name = <<>>,
                                !.attributes = <<>>, !.accumulatedText = <<>>,
                                !.pending = SubSeq(@, i + Len(close), Len(@))],
                      Append(withContent, [kind |-> "end", name |-> p.name,
                                           attributes |-> <<>>, text |-> acc]))

\* Parser.append(fragment): the parser afterwards and the callbacks it made.
parserAppend(p, fragment) ==
    parse([p EXCEPT !.pending = @ \o fragment, !.fullText = @ \o fragment], <<>>)

----------------------------------------------------------------------------
\* AiQuery.chatStreamXml: the callbacks it gives the Parser, and its onStream.

UPDATE_INTERVAL == 16

\* chatStreamXml's closure state is x = [streamBuffer, sinceUpdate, lastStream,
\* tagEvents, calls]; an entry of calls is [kind, name, text] with kind
\* "stream" (onStream called), "buffer" (streamBuffer written), "open"
\* (onTagOpen called) or "end" (onTagEnd called).

\* flushBuffer forgetting the update: streamBuffer = null only.
flushBufferDrops(x) == [x EXCEPT !.streamBuffer = <<>>]

\* flushBuffer: if (streamBuffer && onStream) onStream(...); streamBuffer = null
flushBuffer(x) ==
    IF x.streamBuffer # <<>>
    THEN [x EXCEPT !.lastStream = x.streamBuffer,
                   !.calls = Append(@, [kind |-> "stream",
                                        name |-> x.streamBuffer[1].tagName,
                                        text |-> x.streamBuffer[1].text]),
                   !.streamBuffer = <<>>]
    ELSE x

\* The callbacks with onTagOpen behind the same rate limit as content.
xmlCallbackDebouncesOpen(x, ev) ==
    IF ev.kind = "content" THEN
        IF x.sinceUpdate < UPDATE_INTERVAL
        THEN [x EXCEPT !.streamBuffer = <<[tagName |-> ev.name, text |-> ev.text]>>,
                       !.calls = Append(@, [kind |-> "buffer", name |-> ev.name,
                                            text |-> ev.text])]
        ELSE [x EXCEPT !.sinceUpdate = 0,
                       !.lastStream = <<[tagName |-> ev.name, text |-> ev.text]>>,
                       !.calls = Append(@, [kind |-> "stream", name |-> ev.name,
                                            text |-> ev.text])]
    ELSE IF ev.kind = "open" THEN
        IF x.sinceUpdate < UPDATE_INTERVAL THEN x
        ELSE [x EXCEPT !.tagEvents = Append(@, [kind |-> "open", name |-> ev.name,
                                                attributes |-> ev.attributes,
                                                text |-> <<>>]),
                       !.calls = Append(@, [kind |-> "open", name |-> ev.name,
                                            text |-> <<>>])]
    ELSE
        LET y == flushBuffer(x) IN
        [y EXCEPT !.tagEvents = Append(@, [kind |-> "end", name |-> ev.name,
                                           attributes |-> <<>>, text |-> ev.text]),
                  !.calls = Append(@, [kind |-> "end", name |-> ev.name, text |-> ev.text])]

\* One parser callback applied to the closure state.
xmlCallback(x, ev) ==
    IF ev.kind = "content" THEN
        IF x.sinceUpdate < UPDATE_INTERVAL
        THEN [x EXCEPT !.streamBuffer = <<[tagName |-> ev.name, text |-> ev.text]>>,
                       !.calls = Append(@, [kind |-> "buffer", name |-> ev.name,
                                            text |-> ev.text])]
        ELSE [x EXCEPT !.sinceUpdate = 0,
                       !.lastStream = <<[tagName |-> ev.name, text |-> ev.text]>>,
                       !.calls = Append(@, [kind |-> "stream", name |-> ev.name,
                                            text |-> ev.text])]
    ELSE IF ev.kind = "open" THEN
        [x EXCEPT !.tagEvents = Append(@, [kind |-> "open", name |-> ev.name,
                                           attributes |-> ev.attributes, text |-> <<>>]),
                  !.calls = Append(@, [kind |-> "open", name |-> ev.name, text |-> <<>>])]
    ELSE
        \* flushBuffer(), then onTagEnd
        LET y == flushBuffer(x) IN
        [y EXCEPT !.tagEvents = Append(@, [kind |-> "end", name |-> ev.name,
                                           attributes |-> <<>>, text |-> ev.text]),
                  !.calls = Append(@, [kind |-> "end", name |-> ev.name, text |-> ev.text])]

RECURSIVE xmlCallbacks(_, _)
xmlCallbacks(x, evs) ==
    IF evs = <<>> THEN x ELSE xmlCallbacks(xmlCallback(x, Head(evs)), Tail(evs))

\* onStream dropping blank fragments: if (text && text.trim()).
xmlOnStreamSkipsBlank(p, text) ==
    IF text # <<>> /\ trim(text) # <<>> THEN parserAppend(p, text)
    ELSE [parser |-> p, events |-> <<>>]

\* onStream: (_, text) => { if (text) { parser.append(text) } }
xmlOnStream(p, text) ==
    IF text # <<>> THEN parserAppend(p, text) ELSE [parser |-> p, events |-> <<>>]

XmlInit ==
    /\ parser = NewParser
    /\ streamBuffer = <<>>
    /\ sinceUpdate = UPDATE_INTERVAL   \* lastUpdateTime = 0, long before Date.now()
    /\ lastStream = <<>>
    /\ tagEvents = <<>>
    /\ fed = <<>>
    /\ calls = <<>>
    /\ xmlResolved = FALSE

\* A fragment reaches chatStreamXml's onStream, elapsed ms after the previous one.
XmlOnStream ==
    /\ ~xmlResolved
    /\ Len(fed) < MaxFragments
    /\ \E text \in Fragments, elapsed \in {0, UPDATE_INTERVAL} :
          \E r \in {xmlOnStream(parser, text)} :
          \E x \in {xmlCallbacks([streamBuffer |-> streamBuffer,
                                  sinceUpdate |-> Min(sinceUpdate + elapsed, UPDATE_INTERVAL),
                                  lastStream |-> lastStream,
                                  tagEvents |-> tagEvents,
                                  calls |-> <<>>], r.events)} :
              /\ parser' = r.parser
              /\ streamBuffer' = x.streamBuffer
              /\ sinceUpdate' = x.sinceUpdate
              /\ lastStream' = x.lastStream
              /\ tagEvents' = x.tagEvents
              /\ fed' = Append(fed, text)
              /\ calls' = x.calls
    /\ UNCHANGED xmlResolved
    /\ NotXml

\* Ai.chatStream resolves: flushBuffer(), then return parser.getFullText().
XmlStreamEnds ==
    /\ ~xmlResolved
    /\ \E x \in {flushBuffer([streamBuffer |-> streamBuffer,
                              sinceUpdate |-> sinceUpdate,
                              lastStream |-> lastStream,
                              tagEvents |-> tagEvents,
                              calls |-> <<>>])} :
          /\ streamBuffer' = x.streamBuffer
          /\ lastStream' = x.lastStream
          /\ calls' = x.calls
    /\ xmlResolved' = TRUE
    /\ UNCHANGED <<parser, sinceUpdate, tagEvents, fed>>
    /\ NotXml

XmlNext == XmlOnStream \/ XmlStreamEnds

----------------------------------------------------------------------------
\* ChatHistory: the message list with its size limit.

MAX_MESSAGES == 50
TRUNCATE_TO == 30

MaxAdds == 72         \* add calls made on one ChatHistory
MaxSystem == 1        \* of which System messages

\* enum ChatMessageType
User == "user"
Assistant == "assistant"
System == "system"

\* metadata: {}
EmptyMetadata == [k \in {} |-> ""]

\* What the callers of add pass: a user message without a type, an assistant
\* message, or a System prompt; none of them carries metadata (<<>>; a
\* message with metadata carries <<the object>>).
SystemPrompts == {"be brief", "be formal"}

AddInputs(id, systems) ==
    {[type |-> IF id % 2 = 1 THEN "none" ELSE Assistant, content |-> "text",
      metadata |-> <<>>]}
    \cup (IF systems < MaxSystem
          THEN {[type |-> System, content |-> c, metadata |-> <<>>] : c \in SystemPrompts}
          ELSE {})

\* if (this._messages.length <= MAX_MESSAGES + 1) return
truncateIfNeededLate(msgs) ==
    IF Len(msgs) <= MAX_MESSAGES + 1 THEN msgs
    ELSE LET firstMessage == IF msgs[1].type = System THEN <<msgs[1]>> ELSE <<>>
             recentMessages == SubSeq(msgs, Len(msgs) - TRUNCATE_TO + 1, Len(msgs))
         IN  firstMessage \o recentMessages

\* this._messages = recentMessages
truncateIfNeededDropsFirst(msgs) ==
    IF Len(msgs) <= MAX_MESSAGES THEN msgs
    ELSE SubSeq(msgs, Len(msgs) - TRUNCATE_TO + 1, Len(msgs))

\* firstMessage = [this._messages[0]] whatever its type
truncateIfNeededKeepsAny(msgs) ==
    IF Len(msgs) <= MAX_MESSAGES THEN msgs
    ELSE <<msgs[1]>> \o SubSeq(msgs, Len(msgs) - TRUNCATE_TO + 1, Len(msgs))

\* A rolling window: truncate whenever more than TRUNCATE_TO messages are held.
truncateIfNeededRolling(msgs) ==
    IF Len(msgs) <= TRUNCATE_TO THEN msgs
    ELSE LET firstMessage == IF msgs[1].type = System THEN <<msgs[1]>> ELSE <<>>
             recentMessages == SubSeq(msgs, Len(msgs) - TRUNCATE_TO + 1, Len(msgs))
         IN  firstMessage \o recentMessages

truncateIfNeeded(msgs) ==
    IF Len(msgs) <= MAX_MESSAGES THEN msgs
    ELSE LET firstMessage == IF msgs[1].type = System THEN <<msgs[1]>> ELSE <<>>
             \* slice(-TRUNCATE_TO)
             recentMessages == SubSeq(msgs, Len(msgs) - TRUNCATE_TO + 1, Len(msgs))
         IN  firstMessage \o recentMessages

\* add(message) for a message that is not null: the list it leaves, the length
\* the MessagesChanged listeners found (they run before truncateIfNeeded), and
\* the id it returns.
add(msgs, message, id) ==
    LET stamped == [snowflakeId |-> id,
                    type |-> IF message.type = "none" THEN User ELSE message.type,
                    content |-> message.content,
                    metadata |-> IF message.metadata = <<>> THEN EmptyMetadata
                                 ELSE message.metadata[1]]
        pushed == Append(msgs, stamped)
    IN  [messages |-> truncateIfNeeded(pushed), notified |-> Len(pushed), returned |-> id]

\* The patches handed to updateLast: content absent ("none"), empty or not;
\* metadata absent (<<>>) or <<the object>>.
Patches ==
    [content : {"none", "", "more text"},
     metadata : {<<>>, <<EmptyMetadata>>, <<[a |-> "1"]>>, <<[b |-> "2"]>>}]

NoPatch == [content |-> "none", metadata |-> <<>>]

\* { ...old, ...patch }
Spread(old, patch) ==
    [k \in DOMAIN old \cup DOMAIN patch |-> IF k \in DOMAIN patch THEN patch[k] ELSE old[k]]

\* updateLast writing data.content whenever the patch has the property.
updateLastAnyContent(msgs, data) ==
    LET n == Len(msgs)
        withContent == IF data.content # "none"
                       THEN [msgs EXCEPT ![n].content = data.content] ELSE msgs
    IN  IF msgs = <<>> /\ (data.content \notin {"none", ""} \/ data.metadata # <<>>)
        THEN [messages |-> msgs, notifies |-> FALSE]
        ELSE [messages |-> IF data.metadata # <<>>
                           THEN [withContent EXCEPT
                                    ![n].metadata = Spread(@, data.metadata[1])]
                           ELSE withContent,
              notifies |-> TRUE]

\* updateLast replacing the metadata by the patch's.
updateLastReplacesMetadata(msgs, data) ==
    LET n == Len(msgs)
        withContent == IF data.content \notin {"none", ""}
                       THEN [msgs EXCEPT ![n].content = data.content] ELSE msgs
    IN  IF msgs = <<>> /\ (data.content \notin {"none", ""} \/ data.metadata # <<>>)
        THEN [messages |-> msgs, notifies |-> FALSE]
        ELSE [messages |-> IF data.metadata # <<>>
                           THEN [withContent EXCEPT ![n].metadata = data.metadata[1]]
                           ELSE withContent,
              notifies |-> TRUE]

\* updateLast(data): the list it leaves and whether it reached notifyListeners.
\* if (data.content) is false for the empty string; on an empty list the
\* first assignment throws a TypeError (there is no last message).
updateLast(msgs, data) ==
    LET n == Len(msgs)
        withContent == IF data.content \notin {"none", ""}
                       THEN [msgs EXCEPT ![n].content = data.content] ELSE msgs
    IN  IF msgs = <<>> /\ (data.content \notin {"none", ""} \/ data.metadata # <<>>)
        THEN [messages |-> msgs, notifies |-> FALSE]
        ELSE [messages |-> IF data.metadata # <<>>
                           THEN [withContent EXCEPT
                                    ![n].metadata = Spread(@, data.metadata[1])]
                           ELSE withContent,
              notifies |-> TRUE]

\* new ChatHistory([])
ChatInit ==
    /\ messages = <<>>
    /\ nextSnowflakeId = 1
    /\ listenerSaw = 0
    /\ systemAdds = 0
    /\ lastTruncationAt = 0
    /\ lastPatch = NoPatch

MaxItems == 2         \* messages in a persisted item list

\* The item lists a ChatHistory is constructed from (fromJSON): messages
\* saved earlier, with the metadata they had then.
PersistedItems ==
    {<<>>} \cup
    {[i \in 1..Len(metas) |->
        [snowflakeId |-> i, type |-> IF i % 2 = 1 THEN User ELSE Assistant,
         content |-> "text", metadata |-> metas[i]]] :
     metas \in SeqsUpTo({EmptyMetadata, [a |-> "0", c |-> "3"]}, MaxItems)}

\* new ChatHistory(items)
ChatInitItems ==
    /\ messages \in PersistedItems
    /\ nextSnowflakeId = Len(messages) + 1
    /\ listenerSaw = 0
    /\ systemAdds = 0
    /\ lastTruncationAt = 0
    /\ lastPatch = NoPatch

Add ==
    /\ nextSnowflakeId <= MaxAdds
    /\ \E message \in AddInputs(nextSnowflakeId, systemAdds) :
          \E r \in {add(messages, message, nextSnowflakeId)} :
              /\ messages' = r.messages
              /\ listenerSaw' = r.notified
              /\ lastTruncationAt' = IF Len(r.messages) < r.notified
                                     THEN r.returned ELSE lastTruncationAt
              /\ nextSnowflakeId' = nextSnowflakeId + 1
              /\ systemAdds' = systemAdds + (IF message.type = System THEN 1 ELSE 0)
    /\ UNCHANGED lastPatch
    /\ NotChat

UpdateLast ==
    /\ \E data \in Patches :
          \E r \in {updateLast(messages, data)} :
              /\ messages' = r.messages
              /\ listenerSaw' = IF r.notifies THEN Len(r.messages) ELSE listenerSaw
              /\ lastPatch' = data
    /\ UNCHANGED <<nextSnowflakeId, systemAdds, lastTruncationAt>>
    /\ NotChat

ChatNext == Add

UpdateNext == UpdateLast

----------------------------------------------------------------------------
\* truncateHistoryForTokenLimit (utils/historyTruncation.ts).
\* The function divides character counts by CHARS_PER_TOKEN and compares the
\* quotients, which are multiples of 1/4. Every token quantity is kept here
\* multiplied by CHARS_PER_TOKEN (in characters), so that nothing is rounded.
\* A message's content is [text, length]: its length and what tells it from
\* the other messages.

CHARS_PER_TOKEN == 4
RESPONSE_RESERVE == 1000
DEFAULT_TOKEN_LIMIT == 4096

MaxHistory == 4       \* messages in the history handed to the function

\* Two configured models and one MODEL_TOKEN_LIMITS does not list.
ModelNames == {"gpt-3.5-turbo", "gpt-4", "gpt-4o"}

\* content.length of the messages: empty, half a token, 100 tokens, half of
\* gpt-3.5-turbo's history budget, more than that budget.
ContentLengths == {0, 2, 400, 6192, 13000}

\* systemPromptLength and codeLength: with gpt-3.5-turbo 11984 leaves exactly
\* 100 tokens for the history and 11984 + 4 leaves 99; 40000 leaves less than none.
PromptLengths == {0, 11984, 40000}
CodeLengths == {0, 4, 16384}

Histories ==
    {<<>>} \cup
    {[i \in 1..Len(lens) |->
        [role |-> IF i % 2 = 1 THEN User ELSE Assistant,
         content |-> [text |-> i, length |-> lens[i]]]] :
     lens \in SeqsUpTo(ContentLengths, MaxHistory)}

\* MODEL_TOKEN_LIMITS[modelName] || 4096
MODEL_TOKEN_LIMITS(name) ==
    IF name = "gpt-3.5-turbo" THEN 4096
    ELSE IF name = "gpt-4" THEN 8192
    ELSE DEFAULT_TOKEN_LIMIT

\* availableForHistory, in characters.
availableForHistory(name, promptLength, codeLen) ==
    LET maxTokens == MODEL_TOKEN_LIMITS(name)
        usedTokens == promptLength + codeLen            \* (... ) / CHARS_PER_TOKEN
    IN  maxTokens * CHARS_PER_TOKEN - usedTokens - RESPONSE_RESERVE * CHARS_PER_TOKEN

\* if (availableForHistory < 0)
notEnoughSpaceBelowZero(available) == available < 0

\* if (availableForHistory < 100)
notEnoughSpace(available) == available < 100 * CHARS_PER_TOKEN

\* [history[0]]
lastMessageOnlyFirst(h) == IF Len(h) > 0 THEN <<h[1]>> ELSE <<>>

\* history.slice(1)
lastMessageOnlyTail(h) == IF Len(h) > 0 THEN Tail(h) ELSE <<>>

\* history.length > 0 ? [history[history.length - 1]] : []
lastMessageOnly(h) == IF Len(h) > 0 THEN <<h[Len(h)]>> ELSE <<>>

\* the loop never breaks
stopHereNever(h, i, tokens, available) == FALSE

\* ... && i < history.length - 1
stopHereKeepOne(h, i, tokens, available) == tokens > available /\ i < Len(h) - 1

\* ... && i < history.length - 3
stopHereKeepThree(h, i, tokens, available) == tokens > available /\ i < Len(h) - 3

\* historyTokens + messageTokens > availableForHistory && i < history.length - 2
stopHere(h, i, tokens, available) == tokens > available /\ i < Len(h) - 2

\* The for loop from index i (0-based) down, historyTokens accumulated so
\* far: the startIndex it leaves.
RECURSIVE truncateLoop(_, _, _, _)
truncateLoop(h, i, historyTokens, available) ==
    IF i < 0 THEN 0
    ELSE LET messageTokens == h[i + 1].content.length   \* / CHARS_PER_TOKEN
         IN  IF stopHere(h, i, historyTokens + messageTokens, available)
             THEN i + 1
             ELSE truncateLoop(h, i - 1, historyTokens + messageTokens, available)

truncateHistoryForTokenLimit(h, name, promptLength, codeLen) ==
    LET available == availableForHistory(name, promptLength, codeLen) IN
    IF notEnoughSpace(available) THEN lastMessageOnly(h)
    ELSE LET startIndex == truncateLoop(h, Len(h) - 1, 0, available)
         IN  SubSeq(h, startIndex + 1, Len(h))          \* history.slice(startIndex)

\* No call in progress.
TruncationInit ==
    /\ history = <<>>
    /\ modelName = "gpt-3.5-turbo"
    /\ systemPromptLength = 0
    /\ codeLength = 0
    /\ truncateResult = <<>>
    /\ truncateAgain = <<>>

\* The arguments of one call.
TruncationInputs ==
    /\ history \in Histories
    /\ modelName \in ModelNames
    /\ systemPromptLength \in PromptLengths
    /\ codeLength \in CodeLengths
    /\ truncateResult = <<>>
    /\ truncateAgain = <<>>

Truncate ==
    /\ truncateResult = <<>>
    /\ truncateResult' =
          <<truncateHistoryForTokenLimit(history, modelName, systemPromptLength, codeLength)>>
    /\ UNCHANGED <<history, modelName, systemPromptLength, codeLength, truncateAgain>>
    /\ NotTruncation

\* The function called on what it returned, with the same other arguments.
TruncateAgain ==
    /\ truncateResult # <<>>
    /\ truncateAgain = <<>>
    /\ truncateAgain' =
          <<truncateHistoryForTokenLimit(truncateResult[1], modelName, systemPromptLength,
                                         codeLength)>>
    /\ UNCHANGED <<history, modelName, systemPromptLength, codeLength, truncateResult>>
    /\ NotTruncation

TruncationNext == Truncate \/ TruncateAgain

----------------------------------------------------------------------------
\* The onMessage handlers of the AI node templates: API Call
\* (templates/function-api.ts), Transform Data, Validate Data
\* (templates/function-validate.ts) and Read Database. A handler is an async
\* function: it runs up to its await, and goes on when the awaited promise
\* settles.

MaxRuns == 2          \* onMessage calls made on one ChatHistory

ApiCall == "function-api"
TransformData == "function-transform"
ValidateData == "function-validate"
ReadDatabase == "function-query-database"
RefactorFunction == "function-refactor"

Templates == {ApiCall, TransformData, ValidateData, ReadDatabase, RefactorFunction}

\* this._activities.push(activity)
addActivity(acts, activity) == Append(acts, activity)

\* this._activities.filter((x) => x.id !== activityId)
removeActivity(acts, activityId) == SelectSeq(acts, LAMBDA x : x.id # activityId)

\* The activities a handler adds before its first await.
ActivitiesOf(template) ==
    IF template = ApiCall
    THEN <<[id |-> "configuring-api", name |-> "Configuring API call..."]>>
    ELSE IF template = TransformData
    THEN <<[id |-> "transforming", name |-> "Generating transformation..."]>>
    ELSE IF template = ValidateData
    THEN <<[id |-> "validating", name |-> "Generating validation..."]>>
    ELSE IF template = RefactorFunction
    THEN <<[id |-> "refactoring", name |-> "Refactoring code..."]>>
    ELSE <<[id |-> "processing", name |-> "Processing"],
           [id |-> "code-generation", name |-> "Generating code..."]>>

\* What the handler awaits first.
FirstAwait(template) ==
    IF template = ApiCall THEN "chatStreamXml"
    ELSE IF template = ReadDatabase THEN "extractDatabaseSchema"
    ELSE "chatStream"

Idle == [template |-> "none", at |-> "idle", exit |-> "none"]

TemplateInit ==
    /\ activities = <<>>
    /\ handler = Idle
    /\ runs = 0

\* chatHistory.add({ type: ChatMessageType.Assistant, content, metadata })
HandlerAdds(content, metadata) ==
    /\ \E r \in {add(messages, [type |-> Assistant, content |-> content,
                               metadata |-> metadata], nextSnowflakeId)} :
          /\ messages' = r.messages
          /\ listenerSaw' = r.notified
          /\ lastTruncationAt' = IF Len(r.messages) < r.notified
                                 THEN r.returned ELSE lastTruncationAt
          /\ nextSnowflakeId' = nextSnowflakeId + 1
    /\ UNCHANGED <<systemAdds, lastPatch>>

HandlerReturned == [handler EXCEPT !.at = "done", !.exit = "returned"]
HandlerThrew == [handler EXCEPT !.at = "done", !.exit = "threw"]

\* What the outcomes of QueryGPT4.execute (function-query-database/
\* gpt-4-version) are for its caller: its promise resolves or rejects.
ExecuteOutcomes == {"resolved", "rejected"}

\* onMessage is called for the message the user has just sent: the handler
\* adds its activities, builds the request and reaches its first await.
\* Refactor Function returns before that when the node has no script.
OnMessage ==
    /\ handler.at \in {"idle", "done"}
    /\ runs < MaxRuns
    /\ messages # <<>>
    /\ \E template \in Templates, currentScript \in {"", "script"} :
          IF template = RefactorFunction /\ currentScript = ""
          THEN /\ HandlerAdds("Please create a function first", <<>>)
               /\ handler' = [template |-> template, at |-> "done", exit |-> "returned"]
               /\ UNCHANGED activities
          ELSE /\ activities' = activities \o ActivitiesOf(template)
               /\ handler' = [template |-> template, at |-> FirstAwait(template),
                              exit |-> "none"]
               /\ UNCHANGED chatVars
    /\ runs' = runs + 1
    /\ NotTemplates

\* API Call: chatStreamXml settles. It rejects, or resolves with the tags the
\* answer carried: no resource, or a resource with or without an explanation.
ApiStreamSettles ==
    /\ handler.template = ApiCall
    /\ handler.at = "chatStreamXml"
    /\ \E outcome \in {"rejected", "no resource", "configured", "explained"} :
          /\ activities' = removeActivity(activities, "configuring-api")
          /\ HandlerAdds(IF outcome = "rejected" THEN "I encountered an error"
                         ELSE IF outcome = "no resource" THEN "Could not configure"
                         ELSE IF outcome = "explained" THEN "explanation"
                         ELSE "configured successfully", <<>>)
    /\ handler' = HandlerReturned
    /\ UNCHANGED runs
    /\ NotTemplates

\* Transform Data, Validate Data and Refactor Function: chatStream settles. It
\* rejects, or resolves with no code block, with code new Function rejects,
\* or with code.
CodeStreamSettles ==
    /\ handler.template \in {TransformData, ValidateData, RefactorFunction}
    /\ handler.at = "chatStream"
    /\ \E outcome \in {"rejected", "no code", "invalid code", "code"} :
          /\ activities' = removeActivity(activities, ActivitiesOf(handler.template)[1].id)
          /\ HandlerAdds(IF outcome = "rejected" THEN "I encountered an error"
                         ELSE IF outcome = "no code" THEN "Could not generate"
                         ELSE IF outcome = "invalid code" THEN "The generated code is invalid"
                         ELSE "created successfully",
                         IF outcome = "code" THEN <<[code |-> "codeText"]>> ELSE <<>>)
    /\ handler' = HandlerReturned
    /\ UNCHANGED runs
    /\ NotTemplates

\* Read Database: extractDatabaseSchema resolves, with no schema or with one.
SchemaSettles ==
    /\ handler.template = ReadDatabase
    /\ handler.at = "extractDatabaseSchema"
    /\ \E dbCollectionsSource \in {"", "schema"} :
          IF dbCollectionsSource = ""
          THEN /\ activities' = removeActivity(removeActivity(activities, "code-generation"),
                                               "processing")
               /\ HandlerAdds("No database found", <<>>)
               /\ handler' = HandlerReturned
          ELSE /\ handler' = [handler EXCEPT !.at = "execute"]
               /\ UNCHANGED <<activities, chatVars>>
    /\ UNCHANGED runs
    /\ NotTemplates

\* Read Database: await QueryGPT4.execute(context, dbCollectionsSource)
\* settles. The call is not inside a try: when it rejects the handler's
\* promise rejects there.
ExecuteSettles ==
    /\ handler.template = ReadDatabase
    /\ handler.at = "execute"
    /\ \E outcome \in ExecuteOutcomes :
          IF outcome = "resolved"
          THEN /\ activities' = removeActivity(removeActivity(activities, "code-generation"),
                                               "processing")
               /\ handler' = HandlerReturned
          ELSE /\ handler' = HandlerThrew
               /\ UNCHANGED activities
    /\ UNCHANGED <<runs, chatVars>>
    /\ NotTemplates

TemplateNext ==
    \/ OnMessage
    \/ ApiStreamSettles
    \/ CodeStreamSettles
    \/ SchemaSettles
    \/ ExecuteSettles

----------------------------------------------------------------------------
\* NpmPackageImporter.importFromCommand. The function is async: a call runs
\* up to its await of executeNpmInstall, then from one await of
\* scanPackageForComponents to the next; other calls can be made meanwhile.

MaxImportCalls == 3   \* importFromCommand calls made on the importer
MaxPackages == 2      \* packages one install reports as installed

ImportCallIds == 1..MaxImportCalls

NotCalled == [at |-> "not called", result |-> "none", toScan |-> 0, found |-> 0]

ImporterInit ==
    /\ importInProgress = FALSE
    /\ importCalls = [c \in ImportCallIds |-> NotCalled]
    /\ progress = [c \in ImportCallIds |-> <<>>]
    /\ installs = 0

\* The check made without the flag.
alreadyInProgressNever(inProgress) == FALSE

\* if (this._importInProgress)
alreadyInProgress(inProgress) == inProgress

\* A call that has returned with result; the finally block has run if the
\* call had entered the try.
Finished(c, result) ==
    [importCalls EXCEPT ![c] = [@ EXCEPT !.at = "returned", !.result = result]]

\* onProgress(status) calls made by call c, one per stage given.
Progress(c, stages) == [progress EXCEPT ![c] = @ \o stages]

\* importFromCommand(command, onProgress) up to its first await or return.
ImportFromCommand(c) ==
    /\ importCalls[c].at = "not called"
    /\ \E parses \in BOOLEAN, projectPath \in {"", "/project"} :
          IF alreadyInProgress(importInProgress)
          THEN /\ importCalls' = Finished(c, "already in progress")
               /\ UNCHANGED <<importInProgress, progress, installs>>
          ELSE IF ~parses
          THEN /\ progress' = Progress(c, <<"parsing", "error">>)
               /\ importCalls' = Finished(c, "parse error")
               /\ importInProgress' = FALSE              \* finally
               /\ UNCHANGED installs
          ELSE IF projectPath = ""
          THEN /\ progress' = Progress(c, <<"parsing", "installing", "error">>)
               /\ importCalls' = Finished(c, "no project")
               /\ importInProgress' = FALSE              \* finally
               /\ UNCHANGED installs
          ELSE /\ progress' = Progress(c, <<"parsing", "installing">>)
               /\ importCalls' = [importCalls EXCEPT ![c].at = "installing"]
               /\ importInProgress' = TRUE
               /\ installs' = installs + 1
    /\ NotImporter

\* After the stage "discovering", the end of the run once every package has
\* been scanned and found components were found in all.
Completes(c, found) ==
    /\ IF found = 0
       THEN /\ progress' = Progress(c, <<"discovering", "complete">>)
            /\ importCalls' = [Finished(c, "no components") EXCEPT ![c].toScan = 0]
       ELSE /\ progress' = Progress(c, <<"discovering", "categorizing", "registering",
                                        "complete">>)
            /\ importCalls' = [Finished(c, "imported") EXCEPT ![c].toScan = 0,
                                                              ![c].found = found]
    /\ importInProgress' = FALSE                         \* finally

\* How executeNpmInstall settles: n packages installed.
InstallOutcomes ==
    {[kind |-> "rejected", n |-> 0], [kind |-> "failed", n |-> 0]}
    \cup {[kind |-> "installed", n |-> k] : k \in 0..MaxPackages}

\* How scanPackageForComponents settles: n components found.
ScanOutcomes ==
    {[kind |-> "rejected", n |-> 0], [kind |-> "scanned", n |-> 0],
     [kind |-> "scanned", n |-> 1]}

\* await executeNpmInstall settles: it rejects, reports a failure, or reports
\* the packages it installed.
InstallSettles(c) ==
    /\ importCalls[c].at = "installing"
    /\ \E outcome \in InstallOutcomes :
          IF outcome.kind = "rejected"
          THEN /\ progress' = Progress(c, <<"error">>)   \* catch
               /\ importCalls' = Finished(c, "thrown")
               /\ importInProgress' = FALSE              \* finally
          ELSE IF outcome.kind = "failed"
          THEN /\ progress' = Progress(c, <<"error">>)
               /\ importCalls' = Finished(c, "install failed")
               /\ importInProgress' = FALSE              \* finally
          ELSE IF outcome.n = 0
          THEN Completes(c, 0)
          ELSE /\ progress' = Progress(c, <<"discovering">>)
               /\ importCalls' = [importCalls EXCEPT ![c].at = "discovering",
                                                     ![c].toScan = outcome.n]
               /\ UNCHANGED importInProgress
    /\ UNCHANGED installs
    /\ NotImporter

\* await scanPackageForComponents settles for one package: it rejects, or
\* resolves with the components it found.
ScanSettles(c) ==
    /\ importCalls[c].at = "discovering"
    /\ \E outcome \in ScanOutcomes :
          IF outcome.kind = "rejected"
          THEN /\ progress' = Progress(c, <<"error">>)   \* catch
               /\ importCalls' = Finished(c, "thrown")
               /\ importInProgress' = FALSE              \* finally
          ELSE IF importCalls[c].toScan > 1
          THEN /\ progress' = Progress(c, <<"discovering">>)
               /\ importCalls' = [importCalls EXCEPT ![c].toScan = @ - 1,
                                                     ![c].found = @ + outcome.n]
               /\ UNCHANGED importInProgress
          ELSE Completes(c, importCalls[c].found + outcome.n)
    /\ UNCHANGED installs
    /\ NotImporter

ImporterNext ==
    \E c \in ImportCallIds : ImportFromCommand(c) \/ InstallSettles(c) \/ ScanSettles(c)

----------------------------------------------------------------------------
\* retryWithBackoff (views/Clippy/Commands/utils.tsx) and retryDatabaseFetch
\* (DatabaseSchemaExtractor). attempt is the loop variable.

MaxRetryArg == 3      \* largest maxRetries argument

RetryFns == {"retryWithBackoff", "retryDatabaseFetch"}

\* initialDelay: the default and another value; retryDatabaseFetch has 1000
\* written in.
InitialDelays(fn) == IF fn = "retryWithBackoff" THEN {1000, 250} ELSE {1000}

\* What an attempt throws.
FnErrors == {"first error", "other error"}

NotRetrying == [fn |-> "none", maxRetries |-> 0, initialDelay |-> 0, attempt |-> 0,
                at |-> "idle"]

RetryInit ==
    /\ retrying = NotRetrying
    /\ invocations = 0
    /\ waits = <<>>
    /\ failures = <<>>
    /\ settled = <<>>

\* initialDelay * (attempt + 1)
backoffDelayLinear(initialDelay, attempt) == initialDelay * (attempt + 1)

\* initialDelay * Math.pow(2, attempt)
backoffDelay(initialDelay, attempt) == initialDelay * Pow(2, attempt)

\* if (attempt <= maxRetries)
waitsAgainAlways(attempt, retries) == attempt <= retries

\* if (attempt < maxRetries)
waitsAgain(attempt, retries) == attempt < retries

\* The call is made; the loop starts at attempt 0 and invokes fn.
RetryCalled ==
    /\ retrying.at = "idle"
    /\ \E fn \in RetryFns, retries \in 0..MaxRetryArg :
          \E initialDelay \in InitialDelays(fn) :
              retrying' = [fn |-> fn, maxRetries |-> retries,
                           initialDelay |-> initialDelay, attempt |-> 0, at |-> "fn"]
    /\ invocations' = 1
    /\ UNCHANGED <<waits, failures, settled>>
    /\ NotRetry

\* await fn() resolves: return its value (retryDatabaseFetch: return true).
AttemptSucceeds ==
    /\ retrying.at = "fn"
    /\ settled' = <<[how |-> "resolved",
                     value |-> IF retrying.fn = "retryWithBackoff" THEN "result" ELSE "true"]>>
    /\ retrying' = [retrying EXCEPT !.at = "done"]
    /\ UNCHANGED <<invocations, waits, failures>>
    /\ NotRetry

\* await fn() rejects: the catch block, and the end of the loop after the
\* last attempt.
AttemptFails ==
    /\ retrying.at = "fn"
    /\ \E error \in FnErrors :
          /\ failures' = Append(failures, error)
          /\ IF waitsAgain(retrying.attempt, retrying.maxRetries)
             THEN /\ waits' = Append(waits, backoffDelay(retrying.initialDelay,
                                                         retrying.attempt))
                  /\ retrying' = [retrying EXCEPT !.at = "setTimeout"]
                  /\ UNCHANGED settled
             ELSE /\ retrying' = [retrying EXCEPT !.at = "done"]
                  /\ settled' = IF retrying.fn = "retryWithBackoff"
                                THEN <<[how |-> "rejected", value |-> error]>>  \* throw lastError
                                ELSE <<[how |-> "resolved", value |-> "false"]>>
                  /\ UNCHANGED waits
    /\ UNCHANGED invocations
    /\ NotRetry

\* The timer fires: attempt++ and fn is invoked again.
RetryTimerFires ==
    /\ retrying.at = "setTimeout"
    /\ retrying' = [retrying EXCEPT !.attempt = @ + 1, !.at = "fn"]
    /\ invocations' = invocations + 1
    /\ UNCHANGED <<waits, failures, settled>>
    /\ NotRetry

RetryNext == RetryCalled \/ AttemptSucceeds \/ AttemptFails \/ RetryTimerFires

----------------------------------------------------------------------------
\* NodeLibraryImporter (models/nodelibrary/NodeLibraryImporter.ts) and its
\* ClientCollection. A node name is a sequence of the parts a "." joins. Each
\* client reports one runtime type.

MaxRegisters == 2     \* registerNpmComponents calls made on the importer
MaxComponents == 2    \* components handed to one call

RuntimeTypes == {"browser", "cloud"}

ClientIds == {"viewer", "preview", "cloud runtime"}

RuntimeOf(clientId) == IF clientId = "cloud runtime" THEN "cloud" ELSE "browser"

\* The node types a client's library lists.
ClientNodeTypes ==
    {<<>>, <<[name |-> <<"Group">>, displayName |-> "Group"]>>,
     <<[name |-> <<"Group">>, displayName |-> "Group"],
       [name |-> <<"Text">>, displayName |-> "Text"]>>}

\* The components of npm packages handed to registerNpmComponents.
Components ==
    {[packageName |-> "antd", name |-> "Button", subcategory |-> "Inputs"],
     [packageName |-> "antd", name |-> "Text", subcategory |-> "Typography"]}

LibraryInit ==
    /\ currentNodeLibrary = <<>>
    /\ clients = [c \in ClientIds |-> <<>>]
    /\ cache = [r \in RuntimeTypes |-> <<>>]
    /\ exported = <<>>
    /\ registers = 0
    /\ lastComponents = <<>>

\* ClientCollection.getNodeNames
getNodeNames(cl, ca) ==
    LET taken == {RuntimeOf(c) : c \in {d \in ClientIds : cl[d] # <<>>}}
        nodes == UNION {cl[c][1] : c \in {d \in ClientIds : cl[d] # <<>>}}
        missing == RuntimeTypes \ taken
    IN  nodes \cup UNION {ca[r][1] : r \in {q \in missing : ca[q] # <<>>}}

\* updateIndex(forceUpdate) on a library that is not null: the library and
\* window.NodeLibraryData it leaves.
updateIndex(lib, cl, ca, ex, forceUpdate) ==
    LET nodeNames == getNodeNames(cl, ca)
        kept == SelectSeq(lib.nodetypes, LAMBDA node : node.name \in nodeNames)
        after == [lib EXCEPT !.nodetypes = kept]
    IN  [library |-> after,
         exported |-> IF forceUpdate \/ Len(kept) # Len(lib.nodetypes) THEN <<after>> ELSE ex]

\* mergeUpdates: the node types of the library with the client's merged in.
RECURSIVE mergeNodeTypes(_, _, _)
mergeNodeTypes(nodetypes, incoming, runtimeType) ==
    IF incoming = <<>> THEN nodetypes
    ELSE LET node == Head(incoming)
             found == {i \in 1..Len(nodetypes) : nodetypes[i].name = node.name}
         IN  IF found = {}
             THEN mergeNodeTypes(Append(nodetypes,
                                        [name |-> node.name, displayName |-> node.displayName,
                                         runtimeTypes |-> <<runtimeType>>]),
                                 Tail(incoming), runtimeType)
             ELSE LET index == CHOOSE i \in found : \A j \in found : i <= j
                      has == \E k \in 1..Len(nodetypes[index].runtimeTypes) :
                                 nodetypes[index].runtimeTypes[k] = runtimeType
                  IN  mergeNodeTypes(IF has THEN nodetypes
                                     ELSE [nodetypes EXCEPT ![index].runtimeTypes =
                                              Append(@, runtimeType)],
                                     Tail(incoming), runtimeType)

\* npm.<packageName>.<name>
NpmNodeName(component) == <<"npm", component.packageName, component.name>>

\* The forEach of registerNpmComponents: the library after the components
\* from index i on were handled, existingNames being the names seen so far.
RECURSIVE registerEach(_, _, _, _)
registerEach(lib, existingNames, components, added) ==
    IF components = <<>> THEN [library |-> lib, added |-> added]
    ELSE LET component == Head(components)
             nodeName == NpmNodeName(component)
             existingWithSameName ==
                 \E i \in 1..Len(lib.nodetypes) :
                     /\ lib.nodetypes[i].displayName = component.name
                     /\ lib.nodetypes[i].name[1] # "npm"
             displayName == IF existingWithSameName
                            THEN component.name \o " (" \o component.subcategory \o ")"
                            ELSE component.name
         IN  IF nodeName \in existingNames
             THEN registerEach(lib, existingNames, Tail(components), added)
             ELSE registerEach(
                      [lib EXCEPT !.nodetypes =
                                     Append(@, [name |-> nodeName, displayName |-> displayName,
                                                runtimeTypes |-> <<"react">>]),
                                  !.moduleNodes = Append(@, nodeName)],
                      existingNames \cup {nodeName}, Tail(components), added + 1)

\* registerNpmComponents(components) on a library that is not null.
registerNpmComponents(lib, cl, ca, ex, components) ==
    LET r == registerEach(lib, {lib.nodetypes[i].name : i \in 1..Len(lib.nodetypes)},
                          components, 0)
    IN  IF r.added > 0 THEN updateIndex(r.library, cl, ca, ex, TRUE)
        ELSE [library |-> r.library, exported |-> ex]

\* onClientImport(clientId, runtimeType, library)
OnClientImport ==
    /\ \E clientId \in ClientIds, nodetypes \in ClientNodeTypes :
          \E runtimeType \in {RuntimeOf(clientId)} :
          \E names \in {{nodetypes[i].name : i \in 1..Len(nodetypes)}} :
          \E cl \in {[clients EXCEPT ![clientId] = <<names>>]} :
          \E ca \in {[cache EXCEPT ![runtimeType] = <<names>>]} :
              /\ clients' = cl
              /\ cache' = ca
              /\ \E merged \in {IF currentNodeLibrary = <<>>
                                THEN [nodetypes |-> mergeNodeTypes(<<>>, nodetypes, runtimeType),
                                      moduleNodes |-> <<>>]
                                ELSE [currentNodeLibrary[1] EXCEPT !.nodetypes =
                                         mergeNodeTypes(@, nodetypes, runtimeType)]} :
                 \E r \in {updateIndex(merged, cl, ca, exported,
                                       currentNodeLibrary = <<>>
                                           \/ merged # currentNodeLibrary[1])} :
                     /\ currentNodeLibrary' = <<r.library>>
                     /\ exported' = r.exported
    /\ UNCHANGED <<registers, lastComponents>>
    /\ NotLibrary

\* onClientDisconnect(clientId)
OnClientDisconnect ==
    /\ \E clientId \in ClientIds :
          /\ clients[clientId] # <<>>
          /\ \E cl \in {[clients EXCEPT ![clientId] = <<>>]} :
                /\ clients' = cl
                /\ IF currentNodeLibrary = <<>>
                   THEN /\ exported' = <<>>
                        /\ UNCHANGED currentNodeLibrary
                   ELSE \E r \in {updateIndex(currentNodeLibrary[1], cl, cache, exported,
                                              FALSE)} :
                            /\ currentNodeLibrary' = <<r.library>>
                            /\ exported' = r.exported
    /\ UNCHANGED <<cache, registers, lastComponents>>
    /\ NotLibrary

\* The call of registerNpmComponents(components).
RegisterNpmComponents ==
    /\ registers < MaxRegisters
    /\ \E components \in SeqsUpTo(Components, MaxComponents) :
          /\ lastComponents' = components
          /\ IF currentNodeLibrary = <<>>
             THEN UNCHANGED <<currentNodeLibrary, exported>>
             ELSE \E r \in {registerNpmComponents(currentNodeLibrary[1], clients, cache,
                                                  exported, components)} :
                      /\ currentNodeLibrary' = <<r.library>>
                      /\ exported' = r.exported
    /\ registers' = registers + 1
    /\ UNCHANGED <<clients, cache>>
    /\ NotLibrary

LibraryNext == OnClientImport \/ OnClientDisconnect \/ RegisterNpmComponents

----------------------------------------------------------------------------
\* The OpenRouter Chat node (src/unnamed/part_000). The text of a response
\* is a sequence of symbols: "D" is the text "data: [DONE]", "d" the text of
\* a data line whose JSON carries a delta with content, and "\n" the line
\* feed; two texts on one line make a data line whose JSON does not parse,
\* and an empty line is a line that is no data line. The model, temperature and maxTokens inputs only go into the
\* request body and are left out.

MaxSends == 1     \* sendMessage calls made on the node
MaxBody == 3      \* symbols in one response body

Runtimes == {"browser", "cloud"}

Symbols == {"D", "d", "\n"}

RequestIds == 1..MaxSends

ApiKeys == {"", "key"}

SystemPromptInputs == {"", "sys"}

UserMessages == {"", "hi"}

\* The content of the deltas the server streams in answer to request r.
StreamedDelta(r) == IF r = 1 THEN "a" ELSE "b"

NotSent ==
    [at |-> "not sent", user |-> "", sent |-> <<>>, buffer |-> <<>>, received |-> 0,
     streamed |-> "", streaming |-> 0, done |-> FALSE, terminal |-> <<>>]

\* initialize
OpenRouterInit ==
    /\ internal = [messages |-> <<>>, streamingText |-> "", fullResponse |-> "",
                   apiKey |-> "", systemPrompt |-> "", userMessage |-> ""]
    /\ requests = [r \in RequestIds |-> NotSent]

\* text.split('\n')
RECURSIVE splitLines(_, _, _)
splitLines(text, line, lines) ==
    IF text = <<>> THEN Append(lines, line)
    ELSE IF Head(text) = "\n" THEN splitLines(Tail(text), <<>>, Append(lines, line))
    ELSE splitLines(Tail(text), Append(line, Head(text)), lines)

\* line.startsWith('data: ')
startsWithData(line) == line # <<>> /\ line[1] \in {"D", "d"}

\* data === '[DONE]'
isDone(line) == line = <<"D">>

\* json.choices[0].delta.content of the line of request r, "" when the JSON
\* does not parse or carries no content.
parseDelta(line, r) == IF line = <<"d">> THEN StreamedDelta(r) ELSE ""

\* The messages array sendMessage builds from a copy of the history.
requestMessages(kept, systemPrompt, userMessage) ==
    (IF systemPrompt # "" THEN <<[role |-> "system", content |-> systemPrompt]>> ELSE <<>>)
        \o kept \o <<[role |-> "user", content |-> userMessage]>>

\* The [DONE] branch pushing only the user message.
donePairUserOnly(userMessage, streamingText) ==
    <<[role |-> "user", content |-> userMessage]>>

\* The two messages the [DONE] branch pushes.
donePair(userMessage, streamingText) ==
    <<[role |-> "user", content |-> userMessage],
      [role |-> "assistant", content |-> streamingText]>>

\* The for loop over the lines, in the browser and in the cloud runtime; st
\* holds _internal, what the call streamed and signalled, and whether the
\* loop returned.
RECURSIVE processLines(_, _, _, _)
processLines(lines, st, r, browser) ==
    IF lines = <<>> \/ st.returned THEN st
    ELSE LET line == Head(lines)
         IN  IF ~startsWithData(line) THEN processLines(Tail(lines), st, r, browser)
             ELSE IF isDone(line)
             THEN [st EXCEPT !.internal.fullResponse = st.internal.streamingText,
                             !.internal.messages =
                                 @ \o donePair(st.internal.userMessage,
                                               st.internal.streamingText),
                             !.terminal = Append(@, "completed"),
                             !.returned = TRUE]
             ELSE LET delta == parseDelta(line, r)
                  IN  IF delta # ""
                      THEN processLines(Tail(lines),
                                        [st EXCEPT !.internal.streamingText = @ \o delta,
                                                   !.streamed = @ \o delta,
                                                   !.streaming = IF browser THEN @ + 1 ELSE @],
                                        r, browser)
                      ELSE processLines(Tail(lines), st, r, browser)

LoopState(r) ==
    [internal |-> internal, streamed |-> requests[r].streamed,
     streaming |-> requests[r].streaming, terminal |-> requests[r].terminal,
     returned |-> FALSE]

\* The promise chain of call r is over.
Ended(req, terminal) ==
    [req EXCEPT !.at = "ended", !.user = "", !.sent = <<>>, !.buffer = <<>>,
                !.received = 0, !.terminal = terminal]

\* The .catch of sendMessage
Caught(r) ==
    requests' = [requests EXCEPT ![r] = Ended(@, Append(@.terminal, "error"))]

\* The setters of the apiKey, systemPrompt and userMessage inputs.
SetApiKey ==
    /\ \E value \in ApiKeys : internal' = [internal EXCEPT !.apiKey = value]
    /\ UNCHANGED requests
    /\ NotOpenRouter

SetSystemPrompt ==
    /\ \E value \in SystemPromptInputs : internal' = [internal EXCEPT !.systemPrompt = value]
    /\ UNCHANGED requests
    /\ NotOpenRouter

SetUserMessage ==
    /\ \E value \in UserMessages : internal' = [internal EXCEPT !.userMessage = value]
    /\ UNCHANGED requests
    /\ NotOpenRouter

\* The clearHistory signal.
ClearHistory ==
    /\ internal' = [internal EXCEPT !.messages = <<>>, !.streamingText = "",
                                    !.fullResponse = ""]
    /\ UNCHANGED requests
    /\ NotOpenRouter

\* The send signal: sendMessage, up to the fetch of streamOpenRouterRequest.
SendMessage(r) ==
    /\ requests[r].at = "not sent"
    /\ \A q \in RequestIds : q < r => requests[q].at # "not sent"
    /\ IF internal.apiKey = "" \/ internal.userMessage = ""
       THEN /\ requests' = [requests EXCEPT ![r] = Ended(@, <<"error">>)]
            /\ UNCHANGED internal
       ELSE /\ requests' = [requests EXCEPT ![r] =
                   [@ EXCEPT !.at = "fetching",
                             !.user = internal.userMessage,
                             !.sent = requestMessages(internal.messages,
                                                      internal.systemPrompt,
                                                      internal.userMessage)]]
            /\ internal' = [internal EXCEPT !.streamingText = ""]
    /\ NotOpenRouter

\* fetch rejects.
FetchFails(r) ==
    /\ requests[r].at = "fetching"
    /\ Caught(r)
    /\ UNCHANGED internal
    /\ NotOpenRouter

\* fetch resolves with a response; the first then callback.
Responds(r) ==
    /\ requests[r].at = "fetching"
    /\ \E ok \in BOOLEAN :
          IF ~ok THEN Caught(r)
          ELSE requests' = [requests EXCEPT ![r] =
                               [@ EXCEPT !.at = IF runtime = "browser" THEN "reading"
                                                ELSE "text",
                                         !.sent = <<>>]]
    /\ UNCHANGED internal
    /\ NotOpenRouter

\* Browser: reader.read() resolves with a chunk.
ChunkArrives(r) ==
    /\ requests[r].at = "reading"
    /\ \E chunk \in SeqsUpTo(Symbols, MaxBody) :
          /\ requests[r].received + Len(chunk) <= MaxBody
          /\ \E lines \in {splitLines(requests[r].buffer \o chunk, <<>>, <<>>)} :
             \E st \in {processLines(SubSeq(lines, 1, Len(lines) - 1), LoopState(r), r, TRUE)} :
                /\ internal' = st.internal
                /\ requests' = [requests EXCEPT ![r] =
                       IF st.returned
                       THEN Ended([@ EXCEPT !.streamed = st.streamed,
                                            !.streaming = st.streaming,
                                            !.done = TRUE],
                                  st.terminal)
                       ELSE [@ EXCEPT !.streamed = st.streamed,
                                      !.streaming = st.streaming,
                                      !.received = @ + Len(chunk),
                                      !.buffer = lines[Len(lines)]]]
    /\ NotOpenRouter

\* Browser: reader.read() resolves with done.
StreamEnds(r) ==
    /\ requests[r].at = "reading"
    /\ requests' = [requests EXCEPT ![r] = Ended(@, @.terminal)]
    /\ UNCHANGED internal
    /\ NotOpenRouter

\* reader.read() or response.text() rejects.
ReadFails(r) ==
    /\ requests[r].at \in {"reading", "text"}
    /\ Caught(r)
    /\ UNCHANGED internal
    /\ NotOpenRouter

\* Cloud runtime: response.text() resolves with the whole body.
TextArrives(r) ==
    /\ requests[r].at = "text"
    /\ \E text \in {<<>>} \cup SeqsUpTo(Symbols, MaxBody) :
       \E st \in {processLines(splitLines(text, <<>>, <<>>), LoopState(r), r, FALSE)} :
          /\ internal' = st.internal
          /\ requests' = [requests EXCEPT ![r] =
                 Ended([@ EXCEPT !.streamed = st.streamed, !.done = st.returned],
                       IF st.returned THEN st.terminal
                       ELSE Append(st.terminal, "completed"))]
    /\ NotOpenRouter

\* What ends the promise chain of call r once the HTTP exchange moves on.
Settles(r) == FetchFails(r) \/ Responds(r) \/ StreamEnds(r) \/ ReadFails(r) \/ TextArrives(r)

OpenRouterNext ==
    \/ SetApiKey
    \/ SetSystemPrompt
    \/ SetUserMessage
    \/ ClearHistory
    \/ \E r \in RequestIds : SendMessage(r)
    \/ \E r \in RequestIds : FetchFails(r)
    \/ \E r \in RequestIds : Responds(r)
    \/ \E r \in RequestIds : ChunkArrives(r)
    \/ \E r \in RequestIds : StreamEnds(r)
    \/ \E r \in RequestIds : ReadFails(r)
    \/ \E r \in RequestIds : TextArrives(r)

EditorComponentsInit ==
    TemplateInit /\ ImporterInit /\ RetryInit /\ LibraryInit /\ OpenRouterInit

EditorInit == EditorComponentsInit /\ runtime = "browser"

----------------------------------------------------------------------------
\* Specifications: one streaming request; one lexer fed by chatReAct; one
\* tag parser fed by chatStreamXml; one ChatHistory; one call of
\* truncateHistoryForTokenLimit on each of its inputs.

Init == TransportInit /\ LexerInit /\ XmlInit /\ ChatInit /\ TruncationInit /\ EditorInit

InitItems ==
    TransportInit /\ LexerInit /\ XmlInit /\ ChatInitItems /\ TruncationInit /\ EditorInit

InitTruncation ==
    TransportInit /\ LexerInit /\ XmlInit /\ ChatInit /\ TruncationInputs /\ EditorInit

Spec == Init /\ [][TransportNext]_vars

SpecLexer == Init /\ [][LexerNext]_vars

SpecXml == Init /\ [][XmlNext]_vars

SpecChat == Init /\ [][ChatNext]_vars

SpecUpdate == InitItems /\ [][UpdateNext]_vars

SpecTemplates == InitItems /\ [][TemplateNext]_vars

SpecImporter == Init /\ [][ImporterNext]_vars

SpecRetry == Init /\ [][RetryNext]_vars

SpecLibrary == Init /\ [][LibraryNext]_vars

InitOpenRouter ==
    /\ TransportInit /\ LexerInit /\ XmlInit /\ ChatInit /\ TruncationInit
    /\ EditorComponentsInit
    /\ runtime \in Runtimes

SpecOpenRouter == InitOpenRouter /\ [][OpenRouterNext]_vars

\* The HTTP exchange of every call moves on until its promise chain is over.
SpecOpenRouterLive == SpecOpenRouter /\ \A r \in RequestIds : WF_vars(Settles(r))

SpecTruncation == InitTruncation /\ [][TruncationNext]_vars

----------------------------------------------------------------------------
\* Properties of directChatOpenAi.

\* The content of the events of w that carry a non-empty delta, in order.
ContentDeltas(w) ==
    LET c == SelectSeq(w, LAMBDA ev : ev.kind = "delta")
    IN  [i \in 1..Len(c) |-> c[i].content]

Prefix(s, n) == SubSeq(s, 1, n)

Last(s) == s[Len(s)]

RECURSIVE Flatten(_)
Flatten(ss) == IF ss = <<>> THEN <<>> ELSE Head(ss) \o Flatten(Tail(ss))

\* C1: onStream is invoked once per content-bearing event, in arrival order,
\* with that event's delta; the cumulative text passed at each call, fullText
\* (the value finally resolved) and chatReAct's fullText equal the in-order
\* concatenation of the deltas delivered so far.
C1_InOrderExactlyOnce ==
    LET ds == ContentDeltas(wire) IN
    /\ Len(streamCalls) = Len(ds)
    /\ \A i \in 1..Len(streamCalls) :
          /\ streamCalls[i].delta = ds[i]
          /\ streamCalls[i].fullText = Flatten(Prefix(ds, i))
    /\ fullText = Flatten(ds)
    /\ reactFullText = Flatten(ds)

C1_Witness ==
    /\ phase = "resolved"
    /\ Len(streamCalls) >= 2
    /\ streamCalls[1].delta # streamCalls[2].delta

AllRetriable == \A i \in 1..Len(outcomes) : outcomes[i] = "RetriableError"

\* C2: when every attempt fails with RetriableError the request makes exactly
\* maxRetries + 1 attempts and then rejects; when the first attempt fails and
\* the second succeeds, exactly 2 attempts occur, no retry is pending and the
\* request resolves without rejecting.
C2_RetryCeiling ==
    /\ AllRetriable => attempts <= maxRetries + 1
    /\ (AllRetriable /\ phase = "rejected") =>
          /\ attempts = maxRetries + 1
          /\ Len(outcomes) = maxRetries + 1
    /\ (AllRetriable /\ Len(outcomes) = maxRetries + 1) => phase = "rejected"
    /\ outcomes = <<"RetriableError", "Ok">> =>
          /\ attempts = 2
          /\ phase \in {"streaming", "resolved"}
          /\ retryDelay = 0
          /\ rejection = "none"

C2_Witness ==
    /\ phase = "rejected"
    /\ AllRetriable
    /\ attempts = maxRetries + 1
    /\ response.status \in {200, 429, 500}

FatalStatus(st) == st >= 400 /\ st < 500 /\ st # 429

Failed == Len(outcomes') = Len(outcomes) + 1 /\ Last(outcomes') # "Ok"

\* C3: a response with status in [400,500) other than 429 is classified
\* FatalError; a FatalError rejects at once, leaves tries and currentAttempt
\* unchanged and is never followed by another attempt; currentAttempt changes
\* only on a RetriableError or an unknown error, and then by one.
C3_FatalNoRetry ==
    [][ /\ (phase = "connecting" /\ Failed /\ FatalStatus(response'.status))
             => Last(outcomes') = "FatalError"
        /\ (Failed /\ Last(outcomes') = "FatalError")
             => /\ phase' = "rejected"
                /\ rejection' # "none"
                /\ tries' = tries
                /\ currentAttempt' = currentAttempt
                /\ attempts' = attempts
                /\ retryDelay' = 0
        /\ phase = "rejected" => attempts' = attempts
        /\ (currentAttempt' # currentAttempt \/ tries' # tries)
             => /\ Failed
                /\ Last(outcomes') \in {"RetriableError", "TypeError"}
                /\ currentAttempt' = currentAttempt + 1
                /\ tries' = tries - 1
      ]_vars

C3_Witness ==
    /\ phase = "rejected"
    /\ Last(outcomes) = "FatalError"
    /\ response.status = 401
    /\ attempts = 2
    /\ tries = maxRetries - 1

\* C4: once the caller has aborted (while connecting, between chunks or in a
\* backoff delay) the request is resolved without a rejection, and no further
\* onStream or onEnd call, connection attempt, onerror call or change of the
\* retry counters happens.
C4_AbortIsSilent ==
    [][ callerAborted' =>
          /\ phase' = "resolved"
          /\ rejection' = "none"
          /\ retryDelay' = 0
          /\ streamCalls' = streamCalls
          /\ onEndCalls' = onEndCalls
          /\ attempts' = attempts
          /\ outcomes' = outcomes
          /\ tries' = tries
          /\ currentAttempt' = currentAttempt
      ]_vars

\* Aborted during a backoff delay, after text had been delivered.
C4_Witness ==
    /\ callerAborted
    /\ outcomes # <<>>
    /\ Last(outcomes) # "Ok"
    /\ attempts = Len(outcomes)
    /\ streamCalls # <<>>

HasDone(w) == \E i \in 1..Len(w) : w[i].kind = "done"

FirstDone(w) == CHOOSE i \in 1..Len(w) : w[i].kind = "done" /\ \A j \in 1..(i - 1) : w[j].kind # "done"

\* C5: [DONE] is never passed to onStream and terminates the stream: once it
\* has been observed the request is over, and only the deltas received before
\* it were delivered to onStream and make up fullText.
C5_DoneTerminates ==
    HasDone(wire) =>
        LET before == ContentDeltas(Prefix(wire, FirstDone(wire) - 1)) IN
        /\ phase = "resolved"
        /\ Len(streamCalls) = Len(before)
        /\ \A i \in 1..Len(streamCalls) : streamCalls[i].delta = before[i]
        /\ fullText = Flatten(before)

NewEvents == SubSeq(wire', Len(wire) + 1, Len(wire'))

\* C6: events that are not valid JSON or carry no choices[0].delta.content
\* leave fullText, completionTokenCount and onStream untouched, do not end or
\* retry the stream, and the events after them are delivered in order: every
\* chunk adds exactly its content deltas, whatever else it carries.
C6_ParseIgnorable ==
    [][ wire' # wire =>
          LET ds == ContentDeltas(NewEvents) IN
          /\ fullText' = fullText \o Flatten(ds)
          /\ completionTokenCount' = completionTokenCount + Len(ds)
          /\ Len(streamCalls') = Len(streamCalls) + Len(ds)
          /\ \A i \in 1..Len(ds) : streamCalls'[Len(streamCalls) + i].delta = ds[i]
          /\ <<tries', currentAttempt', attempts', outcomes', rejection', onEndCalls'>>
               = <<tries, currentAttempt, attempts, outcomes, rejection, onEndCalls>>
          /\ ~HasDone(NewEvents) => (phase' = "streaming" /\ aborted' = aborted)
      ]_vars

\* A malformed event and an event without content, then a delta that got through.
C6_Witness ==
    /\ Len(wire) = 3
    /\ wire[1].kind = "badjson"
    /\ wire[2].kind = "nocontent"
    /\ wire[3].kind = "delta"
    /\ fullText = wire[3].content
    /\ phase = "streaming"

----------------------------------------------------------------------------
\* Properties of ReActCommandLexer.

\* C8: after any sequence of appends, commands equals the single-pass
\* tokenization (by a fresh lexer) of the concatenation of everything
\* appended, however it was split; chatReAct's fullText is that concatenation,
\* so the commands it returns equal tokenize(fullText).
C8_SinglePassEquivalence ==
    /\ buffer = Flatten(appended)
    /\ commands = tokenize(<<>>, Flatten(appended))
    /\ reactFullText = Flatten(appended)
    /\ commands = tokenize(<<>>, reactFullText)

\* A["b"] assembled from two chunks that split it inside the argument list.
C8_Witness ==
    /\ Len(appended) = 2
    /\ appended[1] = <<"A", "[", "\"">>
    /\ commands = <<ReActCommand(<<"A">>, << <<"b">> >>)>>

\* C9: no command returned by an append equals (type and arguments) the
\* command at the same index after the previous append; an append that
\* changes no command and adds none returns the empty list.
C9_NoReReport ==
    /\ \A k \in 1..Len(changedCommands) :
          LET i == changedCommands[k] IN
          i <= Len(previousCommands) => commands[i] # previousCommands[i]
    /\ (/\ Len(commands) <= Len(previousCommands)
        /\ \A i \in 1..Len(commands) : commands[i] = previousCommands[i])
          => changedCommands = <<>>

\* A second command arrived: it alone is returned, the unchanged first is not.
C9_Witness ==
    /\ Len(previousCommands) = 1
    /\ Len(commands) = 2
    /\ commands[1] = previousCommands[1]
    /\ changedCommands = <<2>>

NewOrChanged ==
    {i \in 1..Len(commands) : i > Len(previousCommands) \/ commands[i] # previousCommands[i]}

\* C10: an append returns every new command (index beyond the previous
\* count) and every command whose type or arguments differ from the one at
\* its index before, each exactly once, and nothing is missing.
C10_ReportsAllChanges ==
    /\ {changedCommands[k] : k \in 1..Len(changedCommands)} = NewOrChanged
    /\ Len(changedCommands) = Cardinality(NewOrChanged)

\* One append that both rewrites the command at index 1 and adds a second.
C10_Witness ==
    /\ Len(previousCommands) = 1
    /\ Len(commands) = 2
    /\ commands[1] # previousCommands[1]
    /\ Len(changedCommands) = 2

----------------------------------------------------------------------------
\* Properties of the tag parser under chatStreamXml.

StructuralEvents(evs) == SelectSeq(evs, LAMBDA ev : ev.kind # "content")

\* C7: chunk invariance. The onTagOpen / onTagEnd calls (names, attributes,
\* full text) made while the fragments were appended one at a time are those
\* made when the same text is appended to a new Parser as one fragment.
C7_ChunkInvariance ==
    tagEvents = StructuralEvents(parserAppend(NewParser, Flatten(fed)).events)

\* <t a="v">x</t> received in four fragments that cut the attribute and the
\* close sequence: one onTagOpen with the attribute, one onTagEnd with "x".
C7_Witness ==
    /\ fed = << <<"<", "t", " ", "a">>, <<"=", "\"", "v", "\"", ">", "x">>,
                <<"<", "/">>, <<"t", ">">> >>
    /\ tagEvents = << [kind |-> "open", name |-> <<"t">>,
                       attributes |-> <<[name |-> <<"a">>, value |-> <<"v">>]>>,
                       text |-> <<>>],
                      [kind |-> "end", name |-> <<"t">>, attributes |-> <<>>,
                       text |-> <<"x">>] >>

----------------------------------------------------------------------------
\* Properties of ChatHistory.

\* The step is an add call that truncated: it pushed onto a full list.
AddTruncates == nextSnowflakeId' = nextSnowflakeId + 1 /\ Len(messages) + 1 > MAX_MESSAGES

\* The last n elements of s.
Recent(s, n) == SubSeq(s, Len(s) - n + 1, Len(s))

\* C11: whatever the sequence of add calls, with or without a leading System
\* message, the history holds at most MAX_MESSAGES messages once add has
\* returned.
C11_BoundedAfterAdd == Len(messages) <= MAX_MESSAGES

\* A truncation has happened and adds went on after it.
C11_Witness ==
    /\ nextSnowflakeId > MAX_MESSAGES + 2
    /\ Len(messages) = TRUNCATE_TO + 2
    /\ messages[1].type = System

\* C12: when an add truncates a history whose first message is a System
\* message, the first message afterwards is that same message, id and content.
C12_SystemPromptSurvives ==
    [][(AddTruncates /\ messages[1].type = System)
       => (/\ messages'[1].snowflakeId = messages[1].snowflakeId
           /\ messages'[1].content = messages[1].content
           /\ messages'[1] = messages[1])]_vars

\* The System prompt "be formal" was added first and is still first after a
\* truncation that dropped the message added second.
C12_Witness ==
    /\ nextSnowflakeId = MAX_MESSAGES + 2
    /\ messages[1] = [snowflakeId |-> 1, type |-> System, content |-> "be formal",
                      metadata |-> EmptyMetadata]
    /\ messages[2].snowflakeId > 2

\* C13: an add that truncates leaves exactly the old first message when it is
\* a System message, then the TRUNCATE_TO most recent messages in order, the
\* added one last and none twice: TRUNCATE_TO + 1 messages with a leading
\* System message, TRUNCATE_TO without.
C13_TruncationResult ==
    [][AddTruncates
       => LET pushed == Append(messages, Last(messages'))
              leading == messages[1].type = System
          IN  /\ Last(messages').snowflakeId = nextSnowflakeId
              /\ messages' = (IF leading THEN <<messages[1]>> ELSE <<>>)
                                 \o Recent(pushed, TRUNCATE_TO)
              /\ \A i, j \in 1..Len(messages') :
                    messages'[i].snowflakeId = messages'[j].snowflakeId => i = j
              /\ Len(messages') = IF leading THEN TRUNCATE_TO + 1 ELSE TRUNCATE_TO]_vars

\* The add that made 51 messages of a history without a leading System
\* message has just returned.
C13_Witness ==
    /\ nextSnowflakeId = MAX_MESSAGES + 2
    /\ Len(messages) = TRUNCATE_TO
    /\ messages[1].type # System
    /\ messages[TRUNCATE_TO].snowflakeId = MAX_MESSAGES + 1

\* C14: no observer ever finds more than MAX_MESSAGES messages in a
\* ChatHistory, the MessagesChanged listeners notified from inside add
\* included.
C14_NeverMoreThanMax == Len(messages) <= MAX_MESSAGES /\ listenerSaw <= MAX_MESSAGES

----------------------------------------------------------------------------
\* Properties of truncateHistoryForTokenLimit. Costs and budgets are in
\* characters: CHARS_PER_TOKEN times the token figures.

Called == truncateResult # <<>>

Returned == truncateResult[1]

\* Estimated cost of a list of messages: the sum of their content lengths.
RECURSIVE Chars(_)
Chars(list) == IF list = <<>> THEN 0 ELSE Head(list).content.length + Chars(Tail(list))

\* The model's token limit minus the tokens reserved for the response.
LimitChars == (MODEL_TOKEN_LIMITS(modelName) - RESPONSE_RESERVE) * CHARS_PER_TOKEN

\* What the system prompt and the code context leave of it for the history.
BudgetChars == LimitChars - (systemPromptLength + codeLength)

IsSuffix(r, h) == Len(r) <= Len(h) /\ r = Recent(h, Len(r))

Max(a, b) == IF a >= b THEN a ELSE b

C16_KeepsLastMessage ==
    Called => IF history = <<>> THEN Returned = <<>>
              ELSE Returned # <<>> /\ Last(Returned) = Last(history)

\* Older messages were cut and the last one is still last.
C16_Witness ==
    /\ Called
    /\ Len(history) >= 3
    /\ Len(Returned) < Len(history)
    /\ Last(Returned) = Last(history)
    /\ BudgetChars < 0

\* The last message alone is over the budget available for the history.
LastDoesNotFit == history # <<>> /\ Last(history).content.length > BudgetChars

C18_NoRoomFallback ==
    (Called /\ BudgetChars < 100 * CHARS_PER_TOKEN)
    => Returned = IF history = <<>> THEN <<>> ELSE <<Last(history)>>

\* 99 tokens left for a history of several messages that would all fit.
C18_Witness ==
    /\ Called
    /\ BudgetChars >= 0
    /\ BudgetChars < 100 * CHARS_PER_TOKEN
    /\ Len(history) >= 2
    /\ Chars(history) <= BudgetChars
    /\ Returned = <<Last(history)>>

\* Walking from the most recent message to the oldest, the number of messages
\* passed before the first one whose inclusion would exceed the budget.
FirstExceeding ==
    CHOOSE k \in 0..Len(history) :
        /\ k = Len(history) \/ Chars(Recent(history, k + 1)) > BudgetChars
        /\ \A j \in 0..(k - 1) : Chars(Recent(history, j + 1)) <= BudgetChars

----------------------------------------------------------------------------
\* Properties of chatStreamXml's buffering.

\* What streamBuffer held when the callback that made entry k of the step's
\* calls began, b0 being what it held when the step began: the last update
\* written before k, nothing once a tag end has been passed.
RECURSIVE BufferedBefore(_, _, _)
BufferedBefore(b0, ops, k) ==
    IF k = 1 THEN b0
    ELSE IF ops[k - 1].kind = "buffer"
         THEN <<[tagName |-> ops[k - 1].name, text |-> ops[k - 1].text]>>
    ELSE IF ops[k - 1].kind = "end" THEN <<>>
    ELSE BufferedBefore(b0, ops, k - 1)

\* The onStream call that delivers the buffered update b.
Delivery(b) == [kind |-> "stream", name |-> b[1].tagName, text |-> b[1].text]

\* C20: an update buffered when the parser emits a tag end is handed to
\* onStream immediately before onTagEnd and the buffer is empty afterwards;
\* an update still buffered when the stream completes is handed to onStream
\* before chatStreamXml resolves.
C20_FlushBeforeTagEnd ==
    [][/\ \A k \in 1..Len(calls') :
             calls'[k].kind = "end"
             => /\ BufferedBefore(streamBuffer, calls', k) # <<>>
                   => /\ k > 1
                      /\ calls'[k - 1] = Delivery(BufferedBefore(streamBuffer, calls', k))
                /\ (\A j \in (k + 1)..Len(calls') : calls'[j].kind # "buffer")
                   => streamBuffer' = <<>>
       /\ (xmlResolved' /\ ~xmlResolved)
          => /\ streamBuffer # <<>> => calls' = <<Delivery(streamBuffer)>>
             /\ streamBuffer' = <<>>]_vars

\* One fragment brought content that was buffered and the end of its tag: the
\* buffered update was delivered, then the tag end.
C20_Witness ==
    /\ Len(calls) >= 3
    /\ calls[Len(calls) - 2].kind = "buffer"
    /\ calls[Len(calls) - 1] = [kind |-> "stream", name |-> calls[Len(calls) - 2].name,
                                text |-> calls[Len(calls) - 2].text]
    /\ calls[Len(calls)].kind = "end"
    /\ streamBuffer = <<>>

\* The onTagOpen / onTagEnd entries of a step's calls.
StructuralCalls(ops) == SelectSeq(ops, LAMBDA op : op.kind \in {"open", "end"})

\* C21: every tag-open and tag-end event the parser emits is forwarded to
\* onTagOpen / onTagEnd within the same append, exactly once and in emission
\* order, whatever the time elapsed since the last content update.
C21_StructuralEventsImmediate ==
    [][IF fed' # fed
       THEN LET emitted == StructuralEvents(xmlOnStream(parser, Last(fed')).events)
                made == StructuralCalls(calls')
            IN  /\ tagEvents' = tagEvents \o emitted
                /\ Len(made) = Len(emitted)
                /\ \A i \in 1..Len(made) :
                      made[i] = [kind |-> emitted[i].kind, name |-> emitted[i].name,
                                 text |-> emitted[i].text]
       ELSE tagEvents' = tagEvents]_vars

\* A tag open was forwarded in a step in which the content that followed it
\* was held back by the rate limit.
C21_Witness ==
    /\ Len(tagEvents) >= 3
    /\ sinceUpdate < UPDATE_INTERVAL
    /\ \E k \in 1..(Len(calls) - 1) :
          calls[k].kind = "open" /\ calls[k + 1].kind = "buffer"

\* The last update handed to onStream before entry k of the step's calls, l0
\* being the last one handed over before the step; nothing if a tag opened or
\* ended in between.
RECURSIVE DeliveredBefore(_, _, _)
DeliveredBefore(l0, ops, k) ==
    IF k = 1 THEN l0
    ELSE IF ops[k - 1].kind = "stream"
         THEN <<[tagName |-> ops[k - 1].name, text |-> ops[k - 1].text]>>
    ELSE IF ops[k - 1].kind \in {"open", "end"} THEN <<>>
    ELSE DeliveredBefore(l0, ops, k - 1)

\* C22: coalescing drops superseded updates only. The last update onStream
\* received for a tag before its onTagEnd is the most recent one the parser
\* emitted for it (the tag's whole text), and an update flushed when the
\* stream completes is the most recent one emitted, never one older than an
\* update already delivered.
C22_LatestContentWins ==
    [][/\ \A k \in 1..Len(calls') :
             (calls'[k].kind = "end" /\ calls'[k].text # <<>>)
             => DeliveredBefore(lastStream, calls', k)
                    = <<[tagName |-> calls'[k].name, text |-> calls'[k].text]>>
       /\ (xmlResolved' /\ ~xmlResolved /\ streamBuffer # <<>>)
          => streamBuffer[1].text = parser.accumulatedText]_vars

----------------------------------------------------------------------------
\* Properties of directChatOpenAi: rejection value, retries.

\* The messages written for the user that directChatOpenAi can reject with.
PresentableMessages == {HeavyTraffic}

\* C23: whenever directChatOpenAi rejects, after a fatal error or after the
\* retries of a retriable or an unknown error are exhausted, it rejects with a
\* message written for the user and never with the error the transport
\* produced.
C23_RejectionIsPresentable ==
    phase = "rejected" => /\ rejection \in PresentableMessages
                          /\ rejection # Last(outcomes)

\* The events received during the current attempt.
AttemptWire == SubSeq(wire, attemptStart + 1, Len(wire))

\* C24: text is not duplicated across the retries of a request. When the
\* request resolves by itself, fullText is the text of the attempt that
\* streamed the response, not the partial text of a failed attempt followed by
\* the retried response.
C24_NoDuplicationAcrossRetries ==
    (phase = "resolved" /\ ~callerAborted)
    => fullText = Flatten(ContentDeltas(AttemptWire))

\* onerror has just returned a delay.
RetryScheduled == phase' = "backoff" /\ phase # "backoff"

BaseDelay(attempt) == Min(maxDelayMs, initialDelayMs * Pow(backoffMultiplier, attempt))

\* C25: every retry delay is min(maxDelayMs, initialDelayMs *
\* backoffMultiplier^attempt) + jitter with 0 <= jitter < jitterMs, attempt
\* being the attempt counter when the retry is scheduled; the base delay does
\* not decrease from one retry to the next and no delay exceeds
\* maxDelayMs + jitterMs.
C25_BackoffDelay ==
    [][RetryScheduled
       => /\ retryDelay' - BaseDelay(currentAttempt') \in 0..(jitterMs - 1)
          /\ currentAttempt' = currentAttempt + 1
          /\ BaseDelay(currentAttempt') >= BaseDelay(currentAttempt)
          /\ retryDelay' <= maxDelayMs + jitterMs]_vars

\* The third retry is scheduled, with the largest jitter.
C25_Witness ==
    /\ phase = "backoff"
    /\ currentAttempt = maxRetries
    /\ retryDelay = 8000 + jitterMs - 1

\* C26: the retry counters live for the whole request. Always
\* 0 <= tries <= maxRetries and tries + currentAttempt = maxRetries; a request
\* starts with tries = maxRetries and currentAttempt = 0; no step, a
\* successful reconnect included, resets them.
C26_RetryStateLifetime ==
    /\ [](/\ 0 <= tries /\ tries <= maxRetries
          /\ tries + currentAttempt = maxRetries
          /\ outcomes = <<>> => (tries = maxRetries /\ currentAttempt = 0))
    /\ [][tries' <= tries /\ currentAttempt' >= currentAttempt]_vars

\* A reconnect succeeded after two failed attempts and text is streaming.
C26_Witness ==
    /\ phase = "streaming"
    /\ Len(wire) > 0
    /\ tries = 1
    /\ currentAttempt = 2

----------------------------------------------------------------------------
\* Properties of ReActCommandLexer: completed and unterminated commands.

\* The character at index n of buf is the "]" that completes a command.
CompletesCommand(buf, n) ==
    /\ buf[n] = "]"
    /\ Len(tokenize(<<>>, Prefix(buf, n))) = Len(tokenize(<<>>, Prefix(buf, n - 1))) + 1

\* The index, at most n, of the "]" that completes the last completed command
\* of buf; 0 if no command is completed.
RECURSIVE LastCompletion(_, _)
LastCompletion(buf, n) ==
    IF n = 0 THEN 0
    ELSE IF CompletesCommand(buf, n) THEN n
    ELSE LastCompletion(buf, n - 1)

\* C27: once text that starts a following command has been appended, the
\* type and the arguments of the earlier command at its index are not
\* changed by any later append.
C27_CompletedCommandImmutable ==
    [][\A n \in 1..Len(buffer) :
          (/\ \E m \in (n + 1)..Len(buffer) : buffer[m] \in Uppercase
           /\ CompletesCommand(buffer, n))
          => \A i \in {Len(tokenize(<<>>, Prefix(buffer, n)))} :
                /\ i <= Len(commands')
                /\ commands'[i] = commands[i]]_vars

\* What follows the last completed command of the buffer.
OpenRest == SubSeq(buffer, LastCompletion(buffer, Len(buffer)) + 1, Len(buffer))

\* The commands completed in the buffer.
CompletedCommands == tokenize(<<>>, Prefix(buffer, LastCompletion(buffer, Len(buffer))))

\* The text rest, which holds no completed command, opens an argument list
\* after the type t read from its first capital letter on.
EndsInOpenArgs(rest, t) ==
    /\ skipToUppercase(rest, 0) < Len(rest)
    /\ peek(rest, t.position) = "["

\* C28: when the buffer ends inside an argument list that has not seen "]",
\* no command is created for it: there are as many commands as completed
\* ones, the type and arguments in progress are written over the last of
\* them, and with no completed command the list stays empty.
C28_UnterminatedOverwritesLast ==
    \A rest \in {OpenRest} :
    \A t \in {readUntil(rest, skipToUppercase(rest, 0), {"["})} :
        EndsInOpenArgs(rest, t)
        => \A completed \in {CompletedCommands} :
              /\ Len(commands) = Len(completed)
              /\ \A i \in 1..(Len(commands) - 1) : commands[i] = completed[i]
              /\ commands # <<>>
                 => commands[Len(commands)] =
                        ReActCommand(t.value, readArgs(rest, t.position + 1, <<>>).args)

\* A[] is completed and the body of a following A[" is open: its type and
\* arguments stand in the place of the completed command.
C28_Witness ==
    /\ buffer = <<"A", "[", "]", "A", "[", "\"">>
    /\ EndsInOpenArgs(OpenRest, readUntil(OpenRest, skipToUppercase(OpenRest, 0), {"["}))
    /\ CompletedCommands = <<ReActCommand(<<"A">>, <<>>)>>
    /\ commands = <<ReActCommand(<<"A">>, << <<>> >>)>>


\* ---------------------------------------------------------------------------
\* C29: updateLast(patch) on a non-empty history changes only the final
\* message: the count, the order, every id and every other message stay as
\* they were; the final message's content becomes the patch's content when the
\* patch carries one (a non-empty string, the test being if (data.content)),
\* and its metadata becomes the old metadata overlaid with the patch's: every
\* key of the patch has the patch's value, every other key keeps its value.
C29_UpdateLastChangesOnlyLast ==
    [][messages # <<>> /\ nextSnowflakeId' = nextSnowflakeId =>
        \A n \in {Len(messages)} : \A p \in {lastPatch'} :
            /\ Len(messages') = n
            /\ \A i \in 1..(n - 1) : messages'[i] = messages[i]
            /\ messages'[n].snowflakeId = messages[n].snowflakeId
            /\ messages'[n].type = messages[n].type
            /\ messages'[n].content = IF p.content \notin {"none", ""}
                                      THEN p.content ELSE messages[n].content
            /\ IF p.metadata = <<>>
               THEN messages'[n].metadata = messages[n].metadata
               ELSE /\ DOMAIN messages'[n].metadata =
                          DOMAIN messages[n].metadata \cup DOMAIN p.metadata[1]
                    /\ \A k \in DOMAIN p.metadata[1] :
                          messages'[n].metadata[k] = p.metadata[1][k]
                    /\ \A k \in DOMAIN messages[n].metadata \ DOMAIN p.metadata[1] :
                          messages'[n].metadata[k] = messages[n].metadata[k]]_vars

\* Two persisted messages; the last one got new content and the keys a and b
\* from patches, kept its key c, and the first message is as it was saved.
C29_Witness ==
    /\ Len(messages) = 2
    /\ messages[1] = [snowflakeId |-> 1, type |-> User, content |-> "text",
                      metadata |-> [a |-> "0", c |-> "3"]]
    /\ messages[2].snowflakeId = 2
    /\ messages[2].content = "more text"
    /\ DOMAIN messages[2].metadata = {"a", "b", "c"}
    /\ messages[2].metadata["a"] = "1"
    /\ messages[2].metadata["b"] = "2"
    /\ messages[2].metadata["c"] = "3"
    /\ lastPatch.metadata # <<>>


\* ---------------------------------------------------------------------------
\* C30: eviction is a one-shot compaction.  An add whose count after
\* appending is at most MAX_MESSAGES keeps every message already present, in
\* order, and only appends; an add removes a message only when the count
\* after appending exceeds MAX_MESSAGES; and between two adds that remove
\* messages there are at least MAX_MESSAGES - TRUNCATE_TO - 1 = 19 adds.

\* Some message held before the step is not held after it.
Evicts == \E i \in 1..Len(messages) :
              \A j \in 1..Len(messages') : messages'[j].snowflakeId # messages[i].snowflakeId

C30_EvictionIsOneShot ==
    [][nextSnowflakeId' = nextSnowflakeId + 1 =>
        /\ Len(messages) + 1 <= MAX_MESSAGES =>
              /\ Len(messages') = Len(messages) + 1
              /\ SubSeq(messages', 1, Len(messages)) = messages
        /\ Evicts => Len(messages) + 1 > MAX_MESSAGES
        /\ Evicts /\ lastTruncationAt # 0 =>
              nextSnowflakeId - lastTruncationAt - 1 >= MAX_MESSAGES - TRUNCATE_TO - 1]_vars

\* The second truncation of a history that starts with a System prompt: add
\* 51 truncated to 31 messages, adds 52..70 evicted nothing, add 71 truncated.
C30_Witness ==
    /\ lastTruncationAt = 71
    /\ Len(messages) = TRUNCATE_TO + 1
    /\ messages[1].type = System
    /\ messages[2].snowflakeId = 42


\* ---------------------------------------------------------------------------
\* C31: an append never makes the list of commands shorter, and every command
\* that is not the last of the list has the same type and arguments after the
\* append as before; by induction this holds over every later append, the
\* command staying before the last position as the list cannot shrink.
C31_OnlyLastRewritten ==
    [][/\ Len(commands') >= Len(commands)
       /\ \A i \in 1..(Len(commands) - 1) : commands'[i] = commands[i]]_vars

\* Two commands were held; the append rewrote the second and kept the first.
C31_Witness ==
    /\ Len(previousCommands) = 2
    /\ Len(commands) = 2
    /\ commands[1] = previousCommands[1]
    /\ commands[2] # previousCommands[2]


\* ---------------------------------------------------------------------------
\* C32: truncateHistoryForTokenLimit is idempotent: called on its own result
\* with the same model name, system prompt length and code length it returns
\* that result.
C32_TruncationIdempotent ==
    truncateAgain # <<>> => truncateAgain[1] = truncateResult[1]

\* The second call was made on a result from which the loop had cut a message.
C32_Witness ==
    /\ truncateAgain # <<>>
    /\ ~notEnoughSpace(availableForHistory(modelName, systemPromptLength, codeLength))
    /\ Len(truncateResult[1]) = 3
    /\ Len(history) = 4


\* ---------------------------------------------------------------------------
\* C33: a request whose stream completes, by [DONE] or by the server closing
\* the connection, has had onEnd invoked exactly once, and no onStream call
\* follows an onEnd call; a request that was rejected or that the caller
\* cancelled has had no onEnd call.
C33_OnEndOnceOnCompletion ==
    /\ [](/\ phase = "resolved" /\ ~callerAborted => onEndCalls = 1
          /\ phase = "rejected" \/ callerAborted => onEndCalls = 0)
    /\ [][onEndCalls >= 1 => streamCalls' = streamCalls]_vars


\* ---------------------------------------------------------------------------
\* C34: once a template handler has returned or thrown, none of the
\* activities it added is left in chatHistory.activities.
C34_ActivitiesRemovedOnExit ==
    handler.exit \in {"returned", "threw"} =>
        \A i \in 1..Len(activities) :
            \A j \in 1..Len(ActivitiesOf(handler.template)) :
                activities[i].id # ActivitiesOf(handler.template)[j].id


\* ---------------------------------------------------------------------------
\* C35: at most one importFromCommand run is in progress at any time; a call
\* made while a run is in progress returns the 'already in progress' failure
\* and makes no onProgress call, starts no install and leaves the flag set;
\* and when no run that started is still in progress isImporting is false.

\* The calls whose run has started and not finished.
Running == {c \in ImportCallIds : importCalls[c].at \in {"installing", "discovering"}}

C35_SingleImport ==
    /\ [](/\ Cardinality(Running) <= 1
          /\ Running = {} => ~importInProgress)
    /\ [][\A c \in ImportCallIds :
             importCalls[c].at = "not called" /\ importCalls'[c].at # "not called"
                 /\ Running # {}
             => /\ importCalls'[c].at = "returned"
                /\ importCalls'[c].result = "already in progress"
                /\ progress' = progress
                /\ installs' = installs
                /\ importInProgress'
                /\ Running' = Running]_vars

\* A call was turned away while another was scanning, and that other run
\* then finished with components.
C35_Witness ==
    \E c, d \in ImportCallIds :
        /\ importCalls[c].result = "already in progress"
        /\ importCalls[d].result = "imported"
        /\ progress[c] = <<>>
        /\ progress[d][Len(progress[d])] = "complete"
        /\ ~importInProgress


\* ---------------------------------------------------------------------------
\* C36: retryWithBackoff invokes fn at most maxRetries + 1 times; the first
\* success is returned and ends the invocations; the waits are
\* initialDelay * 2^attempt for attempt = 0, 1, ..., one after each failure
\* but the last possible one; and when every attempt failed the call rejects
\* with the last attempt's error.  retryDatabaseFetch does the same with
\* 1000 ms and returns false where retryWithBackoff rejects.
C36_RetrySchedule ==
    /\ invocations <= retrying.maxRetries + 1
    /\ Len(failures) <= invocations
    /\ retrying.fn = "retryDatabaseFetch" => retrying.initialDelay = 1000
    /\ Len(waits) = Min(Len(failures), retrying.maxRetries)
    /\ \A i \in 1..Len(waits) : waits[i] = retrying.initialDelay * Pow(2, i - 1)
    /\ retrying.at = "done" =>
          IF Len(failures) = retrying.maxRetries + 1
          THEN /\ invocations = retrying.maxRetries + 1
               /\ settled = IF retrying.fn = "retryWithBackoff"
                            THEN <<[how |-> "rejected", value |-> failures[Len(failures)]]>>
                            ELSE <<[how |-> "resolved", value |-> "false"]>>
          ELSE /\ invocations = Len(failures) + 1
               /\ settled = <<[how |-> "resolved",
                               value |-> IF retrying.fn = "retryWithBackoff"
                                         THEN "result" ELSE "true"]>>
    /\ retrying.at # "done" => settled = <<>>

\* Three attempts failed with waits of 1000 and 2000 ms between them, and
\* the call rejected with the error of the third, not of the first.
C36_Witness ==
    /\ retrying.fn = "retryWithBackoff"
    /\ retrying.maxRetries = 2
    /\ waits = <<1000, 2000>>
    /\ failures = <<"first error", "first error", "other error">>
    /\ settled = <<[how |-> "rejected", value |-> "other error"]>>


\* ---------------------------------------------------------------------------
\* C37: after a registerNpmComponents call on an importer that has a current
\* node library, each component given is in the library's nodetypes under
\* the name npm.<package>.<component> exactly once, the index update of the
\* call included; so a second registration of a component adds no duplicate.
C37_RegisteredOnce ==
    [][registers' = registers + 1 /\ currentNodeLibrary # <<>> =>
        \A k \in 1..Len(lastComponents') :
            Cardinality({i \in 1..Len(currentNodeLibrary'[1].nodetypes) :
                            currentNodeLibrary'[1].nodetypes[i].name
                                = NpmNodeName(lastComponents'[k])}) = 1]_vars


\* ---------------------------------------------------------------------------
\* C38: the history _internal.messages of the OpenRouter node has even
\* length and alternates user, assistant (so it holds no system message); a
\* call whose loop reaches [DONE] appends exactly one pair, a call that ends
\* any other way (failed validation, response not OK, rejection, end of the
\* stream without [DONE]) leaves the history as it is, and clearHistory
\* empties it.
UserAssistantPairs(msgs) ==
    /\ Len(msgs) % 2 = 0
    /\ \A i \in 1..Len(msgs) :
          msgs[i].role = IF i % 2 = 1 THEN "user" ELSE "assistant"

C39_PairBelongsToCall ==
    [][\A r \in RequestIds :
          (~requests[r].done /\ requests'[r].done) =>
              LET n == Len(internal'.messages)
              IN  /\ n >= 2
                  /\ internal'.messages[n - 1].content = requests[r].user
                  /\ internal'.messages[n].content = requests'[r].streamed]_vars

\* ---------------------------------------------------------------------------
\* C40: every sendMessage call eventually has emitted exactly one terminal
\* signal, 'error' or 'completed', in the browser and in the cloud runtime,
\* once its HTTP exchange has ended, with or without [DONE] in the stream.
C40_OneTerminalSignal ==
    \A r \in RequestIds :
        [](requests[r].at # "not sent" => <>[](Len(requests[r].terminal) = 1))

====
